---- MODULE Spec2Model ----
(***************************************************************************)
(* Model of the ProcessM8 diagram graph engine: the canvas interaction     *)
(* controller of the value-stream (VSMEditor), case (CMMNEditor) and       *)
(* root-cause (FishboneEditor) editors, the viewport geometry, the wire    *)
(* format bridge and the cross-notation lifts (bpmnConverter).             *)
(*                                                                         *)
(* Numbers that the code keeps as JavaScript doubles are modelled as exact *)
(* rationals <<numerator, denominator>>; identifiers produced by           *)
(* crypto.randomUUID() are modelled as fresh naturals drawn from a counter.*)
(***************************************************************************)
EXTENDS Integers, Sequences, FiniteSets, TLC

\* ------------------------------------------------------------------ bounds
MaxSteps == 2
MaxConnectors == 2
MaxUuid == 5
MaxPan == 20
MaxEvents == 8
MaxZooms == 22
MaxLiftSteps == 3
MaxPrefix == 2
MaxRequests == 3
MaxMounts == 3
MaxElements == 3
MaxPureSteps == 1
MaxRuns == 2
MaxSwapSteps == 4
MaxAwaitSteps == 5
MaxSyncSteps == 6
MaxReplacements == 3

\* ------------------------------------------------------- program constants
GRID_SIZE == 10
LADDER_Y == 600
BASE_WIDTH == 1200
BASE_HEIGHT == 800
ContainerW == 800
ContainerH == 600
WindowW == 1280
WindowH == 720
SvgLeft == 30
SvgTop == 90
Null == 0

\* undefined: no record found, no input chosen, no output produced.
NoValue == [kind |-> "none"]

\* ------------------------------------------------------- exact arithmetic
Abs(a) == IF a < 0 THEN -a ELSE a

RECURSIVE Gcd(_, _)
Gcd(a, b) == IF b = 0 THEN a ELSE Gcd(b, a % b)

Rat(n, d) ==
    LET s == IF d < 0 THEN -1 ELSE 1
        g == Gcd(Abs(n), Abs(d))
    IN  <<(s * n) \div g, (s * d) \div g>>

RInt(i) == <<i, 1>>
RAdd(a, b) == Rat(a[1] * b[2] + b[1] * a[2], a[2] * b[2])
RSub(a, b) == Rat(a[1] * b[2] - b[1] * a[2], a[2] * b[2])
RMul(a, b) == Rat(a[1] * b[1], a[2] * b[2])
RDiv(a, b) == Rat(a[1] * b[2], a[2] * b[1])
RLe(a, b) == a[1] * b[2] <= b[1] * a[2]
RMin(a, b) == IF RLe(a, b) THEN a ELSE b
RMax(a, b) == IF RLe(a, b) THEN b ELSE a

\* Math.round: the nearest integer, halves towards +infinity.
MathRound(a) == (2 * a[1] + a[2]) \div (2 * a[2])

Pt(x, y) == [x |-> x, y |-> y]

\* -------------------------------------------------------------- variables
VARIABLES
    editor,               \* which editor component is on screen
    mounted,              \* the component is mounted
    data,                 \* the data prop (owned by the parent project)
    selectedStepId,       \* VSM selectedStepId / CMMN selectedNodeId
    selectedConnectorId,  \* VSM selectedConnectorId / CMMN selectedEdgeId
    selection,            \* Fishbone selection
    viewState,            \* {x, y, scale}
    isPanning,
    lastMousePos,
    hasPanningMoved,      \* useRef
    draggedStepId,        \* VSM draggedStepId / CMMN draggedNodeId
    dragOffset,
    connectMode,
    connectionSource,
    uuid,                 \* number of ids crypto.randomUUID() has handed out
    reg,                  \* closure of the registered window mousemove listener
    nMove,                \* window 'mousemove' listeners registered
    nUp,                  \* window 'mouseup' listeners registered
    pointer,              \* the physical pointer: button phase and press target
    ev,                   \* the last event dispatched (observation only)
    inp,                  \* input of a pure function under check
    out,                  \* its result
    app,                  \* the App: view, generation flags, requests, project
    timers                \* the callbacks setTimeout holds, with what they close over

ctlVars == <<selectedStepId, selectedConnectorId, selection, isPanning,
             lastMousePos, hasPanningMoved, draggedStepId, dragOffset,
             connectMode, connectionSource>>
edVars == <<editor, mounted, data, viewState, uuid, reg, nMove, nUp, pointer, ev>>
fnVars == <<inp, out>>
appVars == <<app, timers>>
vars == <<ctlVars, edVars, fnVars, appVars>>

\* ------------------------------------------------------------- data model
Step(id, role, x, y) == [id |-> id, role |-> role, x |-> x, y |-> y]
Connector(id, s, t, type) == [id |-> id, source |-> s, target |-> t, type |-> type]

StepIds(d) == {d.steps[i].id : i \in 1..Len(d.steps)}
ConnectorIds(d) == {d.connectors[i].id : i \in 1..Len(d.connectors)}

\* Array.prototype.find on the id
FindStep(d, id) ==
    IF \E i \in 1..Len(d.steps) : d.steps[i].id = id
    THEN d.steps[CHOOSE i \in 1..Len(d.steps) :
                    /\ d.steps[i].id = id
                    /\ \A j \in 1..(i - 1) : d.steps[j].id # id]
    ELSE NoValue

\* ------------------------------------------------------------- geometry
\* The render transform of the canvas group, translate(x, y) scale(scale),
\* inside the svg whose client rectangle starts at (SvgLeft, SvgTop).
ToScreenSpace(p, vs) ==
    Pt(RAdd(RAdd(RInt(SvgLeft), vs.x), RMul(p.x, vs.scale)),
       RAdd(RAdd(RInt(SvgTop), vs.y), RMul(p.y, vs.scale)))

\* toLocalCoordinates without the offset of the svg element in the window.
ToLocalNoRect(client, vs) ==
    Pt(RDiv(RSub(client.x, vs.x), vs.scale), RDiv(RSub(client.y, vs.y), vs.scale))

toLocalCoordinates(client, vs) ==
    Pt(RDiv(RSub(RSub(client.x, RInt(SvgLeft)), vs.x), vs.scale),
       RDiv(RSub(RSub(client.y, RInt(SvgTop)), vs.y), vs.scale))

\* Math.round(v / GRID_SIZE) * GRID_SIZE
Snap(v) == MathRound(RDiv(v, RInt(GRID_SIZE))) * GRID_SIZE

IdentityView == [x |-> RInt(0), y |-> RInt(0), scale |-> RInt(1)]
Origin == Pt(RInt(0), RInt(0))

\* ------------------------------------------- the window listeners (useEffect)
\* What the registered handleMouseMove closes over (its render's values).
Closure(ip, dr, lm, dof, vs, d) ==
    [isPanning |-> ip, dragged |-> dr, last |-> lm, off |-> dof, view |-> vs, data |-> d]

\* The useCallback dependency array of handleMouseMove.
Deps(e, c) ==
    IF e = "vsm" THEN <<c.isPanning, c.dragged, c.last, c.off, c.view, c.data>>
    ELSE IF e = "cmmn"
         THEN <<c.isPanning, c.dragged, c.last, c.off, c.view.scale, c.data.steps>>
         ELSE <<c.isPanning, c.last>>

\* useCallback: a new handler only when a dependency changed.
Resubscribe(e, old, cur) == IF Deps(e, old) = Deps(e, cur) THEN old ELSE cur

\* The effect's setup (addEventListener) and its cleanup (removeEventListener).
EffectSetup(n) == n + 1
\* A cleanup that leaves the listener on the window.
EffectCleanupLeak(n) == n

EffectCleanup(n) == n - 1

\* A render whose effect registers the new handlers and leaves the old ones.
RerenderLeak ==
    /\ reg' = Resubscribe(editor, reg,
                Closure(isPanning', draggedStepId', lastMousePos', dragOffset',
                        viewState', data'))
    /\ nMove' = IF reg' # reg THEN EffectSetup(nMove) ELSE nMove
    /\ nUp' = IF reg' # reg THEN EffectSetup(nUp) ELSE nUp

\* A render and its effect: the listeners are re-registered when the handler changed.
Rerender ==
    /\ reg' = Resubscribe(editor, reg,
                Closure(isPanning', draggedStepId', lastMousePos', dragOffset',
                        viewState', data'))
    /\ nMove' = IF reg' # reg THEN EffectSetup(EffectCleanup(nMove)) ELSE nMove
    /\ nUp' = IF reg' # reg THEN EffectSetup(EffectCleanup(nUp)) ELSE nUp

\* ------------------------------------------------------------ inputs
Editors == {"vsm", "cmmn", "fishbone"}
Canvas == {"vsm", "cmmn"}
MousePts == {Pt(RInt(200), RInt(200)), Pt(RInt(220), RInt(210))}
GrabOffsets == {Pt(RInt(0), RInt(0)), Pt(RInt(4), RInt(-3))}
Buttons == {0, 2}
ToolbarTypes(e) == IF e = "vsm" THEN {"push", "pull"} ELSE {"dependency"}
AddRoles(e) == IF e = "vsm" THEN {"process"} ELSE {"task"}

EmptyDiagram == [steps |-> <<>>, connectors |-> <<>>]
LinkedPair(e) ==
    [steps |-> <<Step(1, CHOOSE r \in AddRoles(e) : TRUE, 100, 400),
                 Step(2, CHOOSE r \in AddRoles(e) : TRUE, 300, 400)>>,
     connectors |-> <<Connector(3, 1, 2, CHOOSE t \in ToolbarTypes(e) : TRUE)>>]
Bones == [problemStatement |-> "p", categories |-> <<[id |-> 1, causes |-> 1]>>]
InitialData(e) == IF e = "fishbone" THEN {Bones} ELSE {EmptyDiagram, LinkedPair(e)}
InitialUuid == 3

\* connectMode when no connector tool is active (null in the code).
NoMode == "none"

\* FishboneEditor: the selection state (null, the problem head, or a category).
NoSelection == [type |-> "none", id |-> Null]
FishboneElements == {[type |-> "problem", id |-> Null], [type |-> "category", id |-> 1]}

PointerUp == [phase |-> "up", on |-> "none", id |-> Null, button |-> 0]
\* The last event handled (op, the id and a detail n it concerned) and the number
\* of events handled so far.
Event(op, id, n) == [op |-> op, id |-> id, n |-> n, seq |-> ev.seq + 1]
Budget == ev.seq < MaxEvents

\* The component's state at mount (the useState initial values).
FreshState ==
    /\ selectedStepId' = Null
    /\ selectedConnectorId' = Null
    /\ selection' = NoSelection
    /\ viewState' = IdentityView
    /\ isPanning' = FALSE
    /\ lastMousePos' = Origin
    /\ hasPanningMoved' = FALSE
    /\ draggedStepId' = Null
    /\ dragOffset' = Origin
    /\ connectMode' = NoMode
    /\ connectionSource' = Null

\* ------------------------------------------------ the App and its generators
\* The views of the App that host an editor with a generate entry point.
Views == {"sipoc", "vsm", "editor", "dmn", "cmmn", "form", "rca"}

\* The part of the project a view's generate handler replaces.
Part(v) ==
    CASE v = "sipoc" -> "sipoc" [] v = "vsm" -> "vsm" [] v = "editor" -> "processMap"
      [] v = "dmn" -> "dmn" [] v = "cmmn" -> "cmmn" [] v = "form" -> "form"
      [] v = "rca" -> "fishbone"
Parts == {Part(v) : v \in Views}
\* The view that renders an editor.
ViewOf(e) == IF e = "fishbone" THEN "rca" ELSE e

\* What the user typed into the modal's text box.
Prompts == {"", "text"}

\* The App after a project was opened on view v: nothing in flight, every part
\* of the project at its prior value 0.
AppStart(v) ==
    [view |-> v, inst |-> 1,
     isGenerating |-> FALSE,        \* App.isGenerating
     localGenerating |-> FALSE,     \* FishboneEditor.isGenerating
     isAnalyzing |-> FALSE,         \* VSMEditor.isAnalyzing
     isConcluding |-> FALSE,        \* FishboneEditor.isConcluding
     showAIModal |-> FALSE, showMineModal |-> FALSE,
     pending |-> {},                \* the awaited collaborator requests
     project |-> [p \in Parts |-> 0],
     issued |-> 0,
     last |-> NoValue]

\* A request to the collaborator: the handler's continuation waits for it.
Request(id, service, part, owner, inst) ==
    [id |-> id, service |-> service, part |-> part, owner |-> owner, inst |-> inst]

\* The AI button of the view's toolbar: disabled={isGenerating}.
AIButtonEnabled(a) ==
    IF a.view = "rca" THEN ~a.localGenerating ELSE ~a.isGenerating

\* The Generate button of the view's modal.  ProcessEditor and CMMNEditor call
\* onGenerate(prompt) whatever the prompt and the flag; the others are disabled
\* while the flag is set and ignore a blank prompt.
GenerateEnabled(a, prompt) ==
    CASE a.view \in {"editor", "cmmn"} -> TRUE
      [] a.view = "rca" -> prompt # "" /\ ~a.localGenerating
      [] OTHER -> prompt # "" /\ ~a.isGenerating

\* A continuation that applies whatever the collaborator returned.
ApplyResultAlways(project, r, ok) == [project EXCEPT ![r.part] = r.id]

\* `if (result) updateActiveProjectData({part: result})`: the part is replaced
\* by the result, and a null result changes nothing.
ApplyResult(project, r, ok) ==
    IF ok THEN [project EXCEPT ![r.part] = r.id] ELSE project

\* The state after the editor e is first rendered with the diagram d.
EditorInit(e, d) ==
    /\ editor = e
    /\ mounted = TRUE
    /\ data = d
    /\ selectedStepId = Null
    /\ selectedConnectorId = Null
    /\ selection = NoSelection
    /\ viewState = IdentityView
    /\ isPanning = FALSE
    /\ lastMousePos = Origin
    /\ hasPanningMoved = FALSE
    /\ draggedStepId = Null
    /\ dragOffset = Origin
    /\ connectMode = NoMode
    /\ connectionSource = Null
    /\ uuid = InitialUuid
    /\ reg = Closure(FALSE, Null, Origin, Origin, IdentityView, data)
    /\ nMove = EffectSetup(0)
    /\ nUp = EffectSetup(0)
    /\ pointer = PointerUp
    /\ ev = [op |-> "mount", id |-> Null, n |-> 0, seq |-> 0]

Init ==
    /\ \E e \in Editors : \E d \in InitialData(e) : EditorInit(e, d)
    /\ inp = NoValue
    /\ out = NoValue
    /\ app = AppStart(ViewOf(editor))
    /\ timers = <<>>

\* ---------------------------------------------------- interaction controller
InPanRange(vs) ==
    /\ RLe(RInt(-MaxPan), vs.x) /\ RLe(vs.x, RInt(MaxPan))
    /\ RLe(RInt(-MaxPan), vs.y) /\ RLe(vs.y, RInt(MaxPan))

\* VSMEditor.handleCanvasMouseDown / CMMNEditor.handleCanvasMouseDown: a press on
\* the canvas; in the VSM editor a press on a connector bubbles to the same handler.
handleCanvasMouseDown(p, b, c) ==
    /\ Budget /\ mounted /\ editor \in Canvas /\ pointer.phase = "up"
    /\ c # Null => editor = "vsm" /\ c \in ConnectorIds(data)
    /\ IF editor = "cmmn" /\ b # 0
       THEN UNCHANGED <<isPanning, hasPanningMoved, lastMousePos>>
       ELSE /\ isPanning' = TRUE
            /\ hasPanningMoved' = FALSE
            /\ lastMousePos' = p
    /\ pointer' = [phase |-> "down", on |-> IF c = Null THEN "canvas" ELSE "connector",
                   id |-> c, button |-> b]
    /\ ev' = Event("canvasDown", c, b)
    /\ UNCHANGED <<selectedStepId, selectedConnectorId, selection, draggedStepId,
                   dragOffset, connectMode, connectionSource>>
    /\ UNCHANGED <<editor, mounted, data, viewState, uuid, fnVars, appVars>>
    /\ Rerender

\* FishboneEditor.handleMouseDown: a press on the background (svg or bg-rect)
\* starts a pan and clears the selection; a press on a diagram element (target
\* el, a selection value) does nothing here and is followed by that element's click.
fishboneMouseDown(p, el) ==
    /\ Budget /\ mounted /\ editor = "fishbone" /\ pointer.phase = "up"
    /\ IF el = NoSelection
       THEN /\ isPanning' = TRUE
            /\ hasPanningMoved' = FALSE
            /\ lastMousePos' = p
            /\ selection' = NoSelection
       ELSE UNCHANGED <<isPanning, hasPanningMoved, lastMousePos, selection>>
    /\ pointer' = [phase |-> "down", on |-> IF el = NoSelection THEN "canvas" ELSE "element",
                   id |-> el, button |-> 0]
    /\ ev' = Event("canvasDown", Null, IF el = NoSelection THEN 0 ELSE 1)
    /\ UNCHANGED <<selectedStepId, selectedConnectorId, draggedStepId,
                   dragOffset, connectMode, connectionSource>>
    /\ UNCHANGED <<editor, mounted, data, viewState, uuid, fnVars, appVars>>
    /\ Rerender

\* A drag step that moves every step to the snapped point.
DragUpdateAll(c, q) ==
    LET local == toLocalCoordinates(q, c.view)
        snappedX == Snap(RSub(local.x, c.off.x))
        snappedY == Snap(RSub(local.y, c.off.y))
    IN  [c.data EXCEPT !.steps = [i \in 1..Len(c.data.steps) |->
                                    [c.data.steps[i] EXCEPT !.x = snappedX, !.y = snappedY]]]

\* The diagram a drag step hands to onUpdate: the closure's data with the dragged
\* node moved to the snapped point.
DragUpdate(c, q) ==
    LET local == toLocalCoordinates(q, c.view)
        snappedX == Snap(RSub(local.x, c.off.x))
        snappedY == Snap(RSub(local.y, c.off.y))
        Move(s) == IF s.id = c.dragged THEN [s EXCEPT !.x = snappedX, !.y = snappedY] ELSE s
    IN  [c.data EXCEPT !.steps = [i \in 1..Len(c.data.steps) |-> Move(c.data.steps[i])]]

\* The viewport a pan step produces: setViewState(prev => prev + (e - lastMousePos)).
PanUpdate(prev, c, q) ==
    [prev EXCEPT !.x = RAdd(@, RSub(q.x, c.last.x)),
                 !.y = RAdd(@, RSub(q.y, c.last.y))]

\* handleMouseMove, the registered window listener: it runs with the values of
\* the render that registered it.  A mousemove is a continuous event: its
\* re-render and effect run later (Commit).
handleMouseMove(q) ==
    /\ Budget /\ mounted /\ nMove > 0
    /\ IF reg.isPanning
       THEN /\ hasPanningMoved' = TRUE
            /\ viewState' = PanUpdate(viewState, reg, q)
            /\ InPanRange(viewState')
            /\ lastMousePos' = q
            /\ UNCHANGED data
       ELSE IF editor \in Canvas /\ reg.dragged # Null
            THEN /\ data' = DragUpdate(reg, q)
                 /\ UNCHANGED <<hasPanningMoved, viewState, lastMousePos>>
            ELSE UNCHANGED <<hasPanningMoved, viewState, lastMousePos, data>>
    /\ ev' = Event("move", Null, IF reg.isPanning THEN 1 ELSE IF reg.dragged # Null THEN 2 ELSE 0)
    /\ UNCHANGED <<selectedStepId, selectedConnectorId, selection, isPanning,
                   draggedStepId, dragOffset, connectMode, connectionSource>>
    /\ UNCHANGED <<editor, mounted, uuid, reg, nMove, nUp, pointer, fnVars, appVars>>

\* The deferred re-render after a continuous event, with its effect.
Commit ==
    /\ Budget /\ mounted
    /\ Resubscribe(editor, reg, Closure(isPanning, draggedStepId, lastMousePos,
                                        dragOffset, viewState, data)) # reg
    /\ ev' = Event("commit", Null, 0)
    /\ UNCHANGED <<ctlVars, editor, mounted, data, viewState, uuid, pointer, fnVars, appVars>>
    /\ Rerender

\* handleMouseUp, the registered window listener.  In the VSM editor the release
\* of the primary button over the grid or a connector is followed by its click.
handleMouseUp ==
    /\ Budget /\ mounted /\ nUp > 0 /\ pointer.phase = "down"
    /\ isPanning' = FALSE
    /\ draggedStepId' = Null
    /\ pointer' = IF pointer.button = 0
                     /\ \/ editor = "vsm" /\ pointer.on \in {"canvas", "connector"}
                        \/ editor = "fishbone" /\ pointer.on = "element"
                  THEN [pointer EXCEPT !.phase = "click"]
                  ELSE PointerUp
    /\ ev' = Event("up", Null, 0)
    /\ UNCHANGED <<selectedStepId, selectedConnectorId, selection, lastMousePos,
                   hasPanningMoved, dragOffset, connectMode, connectionSource>>
    /\ UNCHANGED <<editor, mounted, data, viewState, uuid, fnVars, appVars>>
    /\ Rerender

\* VSMEditor: onClick of the grid rectangle.
gridClick ==
    /\ Budget /\ mounted /\ editor = "vsm" /\ pointer.phase = "click" /\ pointer.on = "canvas"
    /\ IF ~hasPanningMoved
       THEN selectedStepId' = Null /\ selectedConnectorId' = Null
       ELSE UNCHANGED <<selectedStepId, selectedConnectorId>>
    /\ pointer' = PointerUp
    /\ ev' = Event("gridClick", Null, 0)
    /\ UNCHANGED <<selection, isPanning, lastMousePos, hasPanningMoved, draggedStepId,
                   dragOffset, connectMode, connectionSource>>
    /\ UNCHANGED <<editor, mounted, data, viewState, uuid, fnVars, appVars>>
    /\ Rerender

\* VSMEditor.handleConnectorClick
handleConnectorClick ==
    /\ Budget /\ mounted /\ editor = "vsm" /\ pointer.phase = "click" /\ pointer.on = "connector"
    /\ selectedConnectorId' = pointer.id
    /\ selectedStepId' = Null
    /\ pointer' = PointerUp
    /\ ev' = Event("connectorClick", pointer.id, 0)
    /\ UNCHANGED <<selection, isPanning, lastMousePos, hasPanningMoved, draggedStepId,
                   dragOffset, connectMode, connectionSource>>
    /\ UNCHANGED <<editor, mounted, data, viewState, uuid, fnVars, appVars>>
    /\ Rerender

\* FishboneEditor: onClick of the problem head or of a category label.
fishboneElementClick ==
    /\ Budget /\ mounted /\ editor = "fishbone" /\ pointer.phase = "click" /\ pointer.on = "element"
    /\ selection' = pointer.id
    /\ pointer' = PointerUp
    /\ ev' = Event("elementClick", Null, 0)
    /\ UNCHANGED <<selectedStepId, selectedConnectorId, isPanning, lastMousePos,
                   hasPanningMoved, draggedStepId, dragOffset, connectMode, connectionSource>>
    /\ UNCHANGED <<editor, mounted, data, viewState, uuid, fnVars, appVars>>
    /\ Rerender

\* addEdge as the connect gesture performs it: append a connector with a fresh id.
AddConnector(d, id, src, tgt, type) ==
    [d EXCEPT !.connectors = Append(@, Connector(id, src, tgt, type))]

\* A connect branch that lets a node be linked to itself.
ConnectPressAny(d, src, mode, id, fresh) ==
    IF src = Null
    THEN <<d, id, mode>>
    ELSE <<AddConnector(d, fresh, src, id, mode), Null, NoMode>>

\* The connect branch of handleNodeMouseDown: what a press on node id does to
\* <<data, connectionSource, connectMode>> while a connector tool is active.
ConnectPress(d, src, mode, id, fresh) ==
    IF src = Null
    THEN <<d, id, mode>>
    ELSE <<IF src # id THEN AddConnector(d, fresh, src, id, mode) ELSE d, Null, NoMode>>

\* VSMEditor.handleNodeMouseDown / CMMNEditor.handleNodeMouseDown: a press on node
\* id, the pointer being at the node's position plus g (model units).
handleNodeMouseDown(id, g) ==
    /\ Budget /\ mounted /\ editor \in Canvas /\ pointer.phase = "up"
    /\ id \in StepIds(data)
    /\ LET step == FindStep(data, id)
           client == ToScreenSpace(Pt(RAdd(RInt(step.x), g.x), RAdd(RInt(step.y), g.y)),
                                   viewState)
           local == toLocalCoordinates(client, viewState)
           r == ConnectPress(data, connectionSource, connectMode, id, uuid + 1)
       IN  IF connectMode # NoMode
           THEN /\ r[1] # data => uuid < MaxUuid /\ Len(data.connectors) < MaxConnectors
                /\ data' = r[1]
                /\ connectionSource' = r[2]
                /\ connectMode' = r[3]
                /\ uuid' = IF r[1] # data THEN uuid + 1 ELSE uuid
                /\ UNCHANGED <<selectedStepId, selectedConnectorId, draggedStepId, dragOffset>>
           ELSE /\ selectedStepId' = id
                /\ selectedConnectorId' = Null
                /\ draggedStepId' = id
                /\ dragOffset' = Pt(RSub(local.x, RInt(step.x)), RSub(local.y, RInt(step.y)))
                /\ UNCHANGED <<data, connectionSource, connectMode, uuid>>
    /\ pointer' = [phase |-> "down", on |-> "node", id |-> id, button |-> 0]
    /\ ev' = Event("nodeDown", id, IF connectMode = NoMode THEN 0
                                   ELSE IF connectionSource = Null THEN 1 ELSE 2)
    /\ UNCHANGED <<selection, isPanning, lastMousePos, hasPanningMoved>>
    /\ UNCHANGED <<editor, mounted, viewState, fnVars, appVars>>
    /\ Rerender

\* VSMEditor.handleToolbarTypeClick; CMMNEditor: the Dependency button's
\* setConnectMode('dependency').
handleToolbarTypeClick(type) ==
    /\ Budget /\ mounted /\ editor \in Canvas /\ pointer.phase = "up"
    /\ type \in ToolbarTypes(editor)
    /\ IF editor = "cmmn"
       THEN connectMode' = type /\ UNCHANGED data
       ELSE IF selectedConnectorId # Null
            THEN /\ data' = [data EXCEPT !.connectors =
                               [i \in 1..Len(data.connectors) |->
                                  IF data.connectors[i].id = selectedConnectorId
                                  THEN [data.connectors[i] EXCEPT !.type = type]
                                  ELSE data.connectors[i]]]
                 /\ UNCHANGED connectMode
            ELSE /\ connectMode' = IF connectMode = type THEN NoMode ELSE type
                 /\ UNCHANGED data
    /\ ev' = Event("toolbar", Null, 0)
    /\ UNCHANGED <<selectedStepId, selectedConnectorId, selection, isPanning, lastMousePos,
                   hasPanningMoved, draggedStepId, dragOffset, connectionSource>>
    /\ UNCHANGED <<editor, mounted, viewState, uuid, pointer, fnVars, appVars>>
    /\ Rerender

\* Where a new node is put: VSMEditor.handleAddStep takes the centre of the
\* container, CMMNEditor.handleAddNode the centre of the window.
AddPosition(e, vs) ==
    IF e = "vsm"
    THEN Pt(RDiv(RAdd(RSub(RInt(0), vs.x), Rat(ContainerW, 2)), vs.scale),
            RDiv(RAdd(RSub(RInt(0), vs.y), Rat(ContainerH, 2)), vs.scale))
    ELSE toLocalCoordinates(Pt(Rat(WindowW, 2), Rat(WindowH, 2)), vs)

\* VSMEditor.handleAddStep / CMMNEditor.handleAddNode
handleAddStep(role) ==
    /\ Budget /\ mounted /\ editor \in Canvas /\ pointer.phase = "up"
    /\ role \in AddRoles(editor)
    /\ uuid < MaxUuid /\ Len(data.steps) < MaxSteps
    /\ LET c == AddPosition(editor, viewState)
       IN  data' = [data EXCEPT !.steps = Append(@, Step(uuid + 1, role, Snap(c.x), Snap(c.y)))]
    /\ uuid' = uuid + 1
    /\ selectedStepId' = uuid + 1
    /\ selectedConnectorId' = IF editor = "vsm" THEN Null ELSE selectedConnectorId
    /\ ev' = Event("add", uuid + 1, 0)
    /\ UNCHANGED <<selection, isPanning, lastMousePos, hasPanningMoved, draggedStepId,
                   dragOffset, connectMode, connectionSource>>
    /\ UNCHANGED <<editor, mounted, viewState, pointer, fnVars, appVars>>
    /\ Rerender

\* A removal that forgets the incident connectors.
RemoveStepOnly(d, id) ==
    [d EXCEPT !.steps = SelectSeq(@, LAMBDA s : s.id # id)]

\* removeNode: the node list without id, the connector list without every
\* connector that has id as source or target.
RemoveStep(d, id) ==
    [d EXCEPT !.steps = SelectSeq(@, LAMBDA s : s.id # id),
              !.connectors = SelectSeq(@, LAMBDA c : c.source # id /\ c.target # id)]

RemoveConnector(d, id) ==
    [d EXCEPT !.connectors = SelectSeq(@, LAMBDA c : c.id # id)]

\* VSMEditor.handleDeleteSelection / CMMNEditor.deleteSelection, through the
\* Delete button of the inspector or (VSM) the Delete or Backspace key.
handleDeleteSelection(via) ==
    /\ Budget /\ mounted /\ editor \in Canvas
    /\ via = "key" => editor = "vsm" /\ pointer.phase # "click"
    /\ via = "button" =>
          /\ pointer.phase = "up"
          /\ \/ selectedStepId \in StepIds(data)
             \/ editor = "vsm" /\ selectedConnectorId # Null
    /\ IF selectedStepId # Null
       THEN /\ data' = RemoveStep(data, selectedStepId)
            /\ selectedStepId' = Null
            /\ UNCHANGED selectedConnectorId
            /\ ev' = Event("deleteStep", selectedStepId,
                           Len(data.connectors) - Len(data'.connectors))
       ELSE IF selectedConnectorId # Null
            THEN /\ data' = RemoveConnector(data, selectedConnectorId)
                 /\ selectedConnectorId' = Null
                 /\ UNCHANGED selectedStepId
                 /\ ev' = Event("deleteConnector", selectedConnectorId, 0)
            ELSE /\ UNCHANGED <<data, selectedStepId, selectedConnectorId>>
                 /\ ev' = Event("deleteNothing", Null, 0)
    /\ UNCHANGED <<selection, isPanning, lastMousePos, hasPanningMoved, draggedStepId,
                   dragOffset, connectMode, connectionSource>>
    /\ UNCHANGED <<editor, mounted, viewState, uuid, pointer, fnVars, appVars>>
    /\ Rerender

\* VSMEditor: the inspector's close button; FishboneEditor: the sidebar's.
closeInspector ==
    /\ Budget /\ mounted /\ editor \in {"vsm", "fishbone"} /\ pointer.phase = "up"
    /\ IF editor = "vsm"
       THEN /\ selectedStepId \in StepIds(data) \/ selectedConnectorId # Null
            /\ selectedStepId' = Null /\ selectedConnectorId' = Null
            /\ UNCHANGED selection
       ELSE /\ selection # NoSelection
            /\ selection' = NoSelection
            /\ UNCHANGED <<selectedStepId, selectedConnectorId>>
    /\ ev' = Event("close", Null, 0)
    /\ UNCHANGED <<isPanning, lastMousePos, hasPanningMoved, draggedStepId,
                   dragOffset, connectMode, connectionSource>>
    /\ UNCHANGED <<editor, mounted, data, viewState, uuid, pointer, fnVars, appVars>>
    /\ Rerender

\* The parent stops rendering the editor (another view is chosen): the effect's
\* cleanup runs and the component state is dropped.  It can happen at any point,
\* a gesture in progress included (n = 1); the rest of that gesture reaches no
\* handler of the editor.
Unmount ==
    /\ Budget /\ mounted
    /\ mounted' = FALSE
    /\ FreshState
    /\ nMove' = EffectCleanup(nMove)
    /\ nUp' = EffectCleanup(nUp)
    /\ reg' = Closure(FALSE, Null, Origin, Origin, IdentityView, data)
    /\ pointer' = PointerUp
    /\ ev' = Event("unmount", Null, IF pointer.phase = "up" THEN 0 ELSE 1)
    /\ UNCHANGED <<editor, data, uuid, fnVars, appVars>>

\* The editor is rendered again: fresh state, the effect registers the listeners.
Mount ==
    /\ Budget /\ ~mounted
    /\ mounted' = TRUE
    /\ FreshState
    /\ nMove' = EffectSetup(nMove)
    /\ nUp' = EffectSetup(nUp)
    /\ reg' = Closure(FALSE, Null, Origin, Origin, IdentityView, data)
    /\ ev' = Event("mount", Null, 0)
    /\ UNCHANGED <<editor, data, uuid, pointer, fnVars, appVars>>

Next ==
    \/ /\ editor \in Canvas
       /\ \E p \in MousePts, b \in Buttons, c \in {Null} \cup ConnectorIds(data) :
             handleCanvasMouseDown(p, b, c)
    \/ \E p \in MousePts, el \in {NoSelection} \cup FishboneElements : fishboneMouseDown(p, el)
    \/ \E q \in MousePts : handleMouseMove(q)
    \/ Commit
    \/ handleMouseUp
    \/ gridClick
    \/ handleConnectorClick
    \/ fishboneElementClick
    \/ /\ editor \in Canvas
       /\ \E id \in StepIds(data), g \in GrabOffsets : handleNodeMouseDown(id, g)
    \/ \E t \in ToolbarTypes(editor) : handleToolbarTypeClick(t)
    \/ \E r \in AddRoles(editor) : handleAddStep(r)
    \/ \E via \in {"key", "button"} : handleDeleteSelection(via)
    \/ closeInspector
    \/ Unmount
    \/ Mount

Spec == Init /\ [][Next]_vars

\* --------------------------------------------------------------- viewport
MinOf(S) == CHOOSE m \in S : \A v \in S : m <= v
MaxOf(S) == CHOOSE m \in S : \A v \in S : v <= m
Xs(d) == {d.steps[i].x : i \in 1..Len(d.steps)}
Ys(d) == {d.steps[i].y : i \in 1..Len(d.steps)}

\* handleZoom without the clamp.
ZoomFree(vs, delta) == [vs EXCEPT !.scale = RAdd(@, delta)]

\* handleZoom's state update: scale + delta, held in [0.2, 3].
Zoom(vs, delta) ==
    [vs EXCEPT !.scale = RMax(Rat(2, 10), RMin(RInt(3), RAdd(@, delta)))]

\* CMMNEditor.handleAddNode: the size given to a plan item.
NodeWidth(role) == IF role = "stage" THEN 220 ELSE 140
NodeHeight(role) == IF role = "stage" THEN 160 ELSE 60

\* VSMEditor.handleFitView (the container being laid out).
FitVsm(d, vs) ==
    IF Len(d.steps) = 0 THEN IdentityView
    ELSE LET minX == MinOf(Xs(d))
             minY == MinOf(Ys(d))
             width == MaxOf(Xs(d)) - minX + 200
             height == MaxOf(Ys(d) \cup {LADDER_Y + 100}) - minY + 200
             scale == RMin(RMin(Rat(ContainerW, width + 100), Rat(ContainerH, height + 100)),
                           RInt(1))
         IN  [x |-> RAdd(RSub(RDiv(RSub(RInt(ContainerW), RMul(RInt(width), scale)), RInt(2)),
                              RMul(RInt(minX), scale)), RInt(50)),
              y |-> RAdd(RSub(RDiv(RSub(RInt(ContainerH), RMul(RInt(height), scale)), RInt(2)),
                              RMul(RInt(minY), scale)), RInt(50)),
              scale |-> scale]

\* CMMNEditor.handleFitView
FitCmmn(d, vs) ==
    IF Len(d.steps) = 0 THEN vs
    ELSE LET minX == MinOf(Xs(d))
             minY == MinOf(Ys(d))
             maxX == MaxOf({d.steps[i].x + NodeWidth(d.steps[i].role) : i \in 1..Len(d.steps)})
             maxY == MaxOf({d.steps[i].y + NodeHeight(d.steps[i].role) : i \in 1..Len(d.steps)})
             width == maxX - minX
             height == maxY - minY
             scale == RMin(RMin(Rat(ContainerW, width + 200), Rat(ContainerH, height + 200)),
                           RInt(1))
         IN  [x |-> RSub(RDiv(RSub(RInt(ContainerW), RMul(RInt(width), scale)), RInt(2)),
                         RMul(RInt(minX), scale)),
              y |-> RSub(RDiv(RSub(RInt(ContainerH), RMul(RInt(height), scale)), RInt(2)),
                         RMul(RInt(minY), scale)),
              scale |-> scale]

\* FishboneEditor.handleResetView
FitFishbone ==
    LET fitScale == RMin(RMin(Rat(ContainerW - 40, BASE_WIDTH),
                              Rat(ContainerH - 40, BASE_HEIGHT)), RInt(1))
    IN  [x |-> RDiv(RSub(RInt(ContainerW), RMul(RInt(BASE_WIDTH), fitScale)), RInt(2)),
         y |-> RDiv(RSub(RInt(ContainerH), RMul(RInt(BASE_HEIGHT), fitScale)), RInt(2)),
         scale |-> fitScale]

ZoomBudget == ev.seq < MaxZooms
ViewFrame ==
    /\ UNCHANGED ctlVars
    /\ UNCHANGED <<editor, mounted, data, uuid, pointer, fnVars, appVars>>

\* handleZoom(delta), from the zoom-in and zoom-out buttons.
handleZoom(delta) ==
    /\ ZoomBudget /\ mounted
    /\ viewState' = Zoom(viewState, delta)
    /\ ev' = Event("zoom", Null, IF viewState'.scale = viewState.scale THEN 1 ELSE 0)
    /\ ViewFrame
    /\ Rerender

\* handleWheel (VSMEditor, FishboneEditor): a tenth out when deltaY > 0, a tenth
\* in otherwise.  CMMNEditor has no wheel handler.
handleWheel(deltaY) ==
    /\ ZoomBudget /\ mounted /\ editor \in {"vsm", "fishbone"}
    /\ viewState' = Zoom(viewState, IF deltaY > 0 THEN Rat(-1, 10) ELSE Rat(1, 10))
    /\ ev' = Event("wheel", Null, IF viewState'.scale = viewState.scale THEN 1 ELSE 0)
    /\ ViewFrame
    /\ UNCHANGED <<reg, nMove, nUp>>

\* The fit button: handleFitView (VSMEditor, CMMNEditor), handleResetView
\* (FishboneEditor).
handleFitView ==
    /\ ZoomBudget /\ mounted
    /\ viewState' = IF editor = "vsm" THEN FitVsm(data, viewState)
                    ELSE IF editor = "cmmn" THEN FitCmmn(data, viewState)
                    ELSE FitFishbone
    /\ ev' = Event("fit", Null, 0)
    /\ ViewFrame
    /\ Rerender

\* A diagram much wider than the container.
Sprawl(e) ==
    [steps |-> <<Step(1, CHOOSE r \in AddRoles(e) : TRUE, 0, 400),
                 Step(2, CHOOSE r \in AddRoles(e) : TRUE, 6000, 400)>>,
     connectors |-> <<>>]

InitView ==
    /\ \E e \in Editors :
          \E d \in InitialData(e) \cup (IF e \in Canvas THEN {Sprawl(e)} ELSE {}) :
             EditorInit(e, d)
    /\ inp = NoValue /\ out = NoValue
    /\ app = AppStart(ViewOf(editor))
    /\ timers = <<>>

NextView ==
    \/ \E delta \in {Rat(1, 10), Rat(-1, 10)} : handleZoom(delta)
    \/ \E deltaY \in {-100, 100} : handleWheel(deltaY)
    \/ handleFitView
    \/ Commit

SpecView == InitView /\ [][NextView]_vars

InRange(scale) == RLe(Rat(2, 10), scale) /\ RLe(scale, RInt(3))

\* C2 -- Viewport clamp: a zoom step (button or wheel) taken from a scale in
\* [0.2, 3.0] ends at a scale in [0.2, 3.0]; hence so does every sequence of
\* zoom steps that starts in the interval.
C2_ViewportClamp ==
    [][(ev'.seq # ev.seq /\ ev'.op \in {"zoom", "wheel"} /\ InRange(viewState.scale))
       => InRange(viewState'.scale)]_vars

\* C2 witness: a zoom step was taken at a bound of the interval and the scale
\* was held there.
C2_Witness ==
    /\ ev.op \in {"zoom", "wheel"} /\ ev.n = 1
    /\ viewState.scale \in {Rat(2, 10), RInt(3)}

\* ------------------------------------------------------- the lifts
\* Array.prototype.sort((a, b) => a.x - b.x): ascending in x, stable.
RECURSIVE SortByX(_)
SortByX(s) ==
    IF Len(s) <= 1 THEN s
    ELSE LET rest == SortByX(SubSeq(s, 1, Len(s) - 1))
             e == s[Len(s)]
             k == Cardinality({i \in 1..Len(rest) : rest[i].x <= e.x})
         IN  SubSeq(rest, 1, k) \o <<e>> \o SubSeq(rest, k + 1, Len(rest))

\* Number(v.toFixed(2)) for a value v >= 0 that is no exact half of a hundredth
\* (seconds / 60 never is).
ToFixed2(v) == Rat(MathRound(RMul(v, RInt(100))), 100)

ProcessNode(id, type, label, x, y, metrics) ==
    [id |-> id, type |-> type, label |-> label, x |-> x, y |-> y, metrics |-> metrics]
ProcessEdge(src, tgt) == [id |-> <<"Flow", src, tgt>>, source |-> src, target |-> tgt]

\* The nodes the loop of convertVsmToBpmn pushes for the sorted process steps.
VsmTasks(ps) ==
    [i \in 1..Len(ps) |->
        ProcessNode(<<"Task", ps[i].id>>, "task", ps[i].name, 300 + 180 * (i - 1), 250,
                    [cycleTime |-> IF ps[i].data.cycleTime # 0
                                   THEN ToFixed2(Rat(ps[i].data.cycleTime, 60)) ELSE RInt(0),
                     waitingTime |-> 0, cost |-> 0,
                     changeoverTime |-> ps[i].data.changeoverTime,
                     uptime |-> ps[i].data.uptime])]

\* A lift that forgets the flow into the end event.
ChainEdgesOpen(nodes) ==
    [i \in 1..(Len(nodes) - 2) |-> ProcessEdge(nodes[i].id, nodes[i + 1].id)]

\* The edges both lifts push: one from each node to the next one pushed.
ChainEdges(nodes) ==
    [i \in 1..(Len(nodes) - 1) |-> ProcessEdge(nodes[i].id, nodes[i + 1].id)]

\* A lift that keeps every step, whatever its role.
ProcessStepsAll(vsm) == SortByX(vsm.steps)

\* The filter and sort of convertVsmToBpmn.
ProcessSteps(vsm) == SortByX(SelectSeq(vsm.steps, LAMBDA st : st.role = "process"))

convertVsmToBpmn(vsm) ==
    LET ends == [cycleTime |-> RInt(0), waitingTime |-> 0, cost |-> 0,
                 changeoverTime |-> 0, uptime |-> 100]
        tasks == VsmTasks(ProcessSteps(vsm))
        nodes == <<ProcessNode(<<"StartEvent", 1>>, "start", "Process Start", 150, 250, ends)>>
                 \o tasks
                 \o <<ProcessNode(<<"EndEvent", 1>>, "end", "Process End",
                                  300 + 180 * Len(tasks), 250, ends)>>
    IN  [kind |-> "bpmn", nodes |-> nodes, edges |-> ChainEdges(nodes)]

\* convertSipocToBpmn; ids[i] is the five-character prefix of the identifier
\* crypto.randomUUID() returns for the i-th task.
convertSipocToBpmn(sipoc, ids) ==
    LET zero == [cycleTime |-> 0, waitingTime |-> 0]
        processList == IF Len(sipoc.process) > 0 THEN sipoc.process ELSE <<"New Task">>
        tasks == [i \in 1..Len(processList) |->
                    ProcessNode(<<"Task", ids[i]>>, "task", processList[i],
                                330 + 180 * (i - 1), 250, zero)]
        nodes == <<ProcessNode(<<"StartEvent", 0>>, "start",
                               IF Len(sipoc.inputs) > 0 THEN <<"Input: ", sipoc.inputs[1]>>
                               ELSE <<"Start">>, 150, 250, zero)>>
                 \o tasks
                 \o <<ProcessNode(<<"EndEvent", 0>>, "end",
                                  IF Len(sipoc.outputs) > 0 THEN <<"Output: ", sipoc.outputs[1]>>
                                  ELSE <<"End">>, 330 + 180 * Len(tasks), 250, zero)>>
    IN  [kind |-> "bpmn", nodes |-> nodes, edges |-> ChainEdges(nodes)]

\* Inputs of the lifts.
SeqsUpTo(S, n) == UNION {[1..k -> S] : k \in 0..n}
StepNames == <<"A", "B", "C", "D">>
VsmStepChoices ==
    [role : {"process", "inventory"}, x : {100, 300}, cycleTime : {0, 100}]
VsmInputs ==
    {[kind |-> "vsm",
      steps |-> [i \in 1..Len(c) |->
                   [id |-> 10 + i, role |-> c[i].role, name |-> StepNames[i],
                    x |-> c[i].x, y |-> 400,
                    data |-> [cycleTime |-> c[i].cycleTime, changeoverTime |-> 5,
                              uptime |-> 90]]],
      connectors |-> <<>>] : c \in SeqsUpTo(VsmStepChoices, MaxLiftSteps)}
Words == {"a", "b"}
SipocInputs ==
    {[kind |-> "sipoc", suppliers |-> <<>>, inputs |-> i, process |-> p, outputs |-> o,
      customers |-> <<>>] :
        i \in SeqsUpTo(Words, 1), p \in SeqsUpTo(Words, MaxLiftSteps), o \in SeqsUpTo(Words, 1)}
UuidPrefixes == 1..MaxPrefix

FnFrame == UNCHANGED <<ctlVars, edVars, appVars>>

LiftVsm ==
    /\ inp.kind = "vsm" /\ out = NoValue
    /\ out' = convertVsmToBpmn(inp)
    /\ inp' = inp
    /\ FnFrame

LiftSipoc ==
    /\ inp.kind = "sipoc" /\ out = NoValue
    /\ \E ids \in [1..(IF Len(inp.process) > 0 THEN Len(inp.process) ELSE 1) -> UuidPrefixes] :
          out' = convertSipocToBpmn(inp, ids)
    /\ inp' = inp
    /\ FnFrame

InitLift ==
    /\ EditorInit("vsm", EmptyDiagram)
    /\ inp \in VsmInputs \cup SipocInputs
    /\ out = NoValue
    /\ app = AppStart(ViewOf(editor))
    /\ timers = <<>>

NextLift == LiftVsm \/ LiftSipoc

SpecLift == InitLift /\ [][NextLift]_vars

IsChain(nodes, edges) ==
    /\ Len(edges) = Len(nodes) - 1
    /\ \A i \in 1..Len(edges) :
          edges[i].source = nodes[i].id /\ edges[i].target = nodes[i + 1].id
Distinct(q) == \A i, j \in 1..Len(q) : i # j => q[i] # q[j]
Ids(q) == [i \in 1..Len(q) |-> q[i].id]

\* C3 -- Pipeline cardinality: for a value-stream diagram with k process-role
\* steps the lift returns k + 2 nodes (a start event, k tasks, an end event, in
\* that order, with distinct ids) and k + 1 edges, the i-th edge leading from
\* the i-th node to the (i+1)-th: one chain from start to end.
C3_PipelineCardinality ==
    (inp.kind = "vsm" /\ out # NoValue) =>
        LET k == Cardinality({i \in 1..Len(inp.steps) : inp.steps[i].role = "process"})
        IN  /\ Len(out.nodes) = k + 2
            /\ Len(out.edges) = k + 1
            /\ out.nodes[1].type = "start"
            /\ out.nodes[k + 2].type = "end"
            /\ \A i \in 2..(k + 1) : out.nodes[i].type = "task"
            /\ Distinct(Ids(out.nodes))
            /\ Distinct(Ids(out.edges))
            /\ IsChain(out.nodes, out.edges)

\* C3 witness: a diagram with two process steps among steps of other roles
\* was lifted.
C3_Witness ==
    /\ inp.kind = "vsm" /\ out # NoValue
    /\ Len(inp.steps) = 3 /\ Len(out.nodes) = 4
    /\ out.nodes[2].x < out.nodes[3].x

Tenths == {Rat(k, 10) : k \in 2..30}
Offsets == {RInt(0), RInt(-35), Rat(241, 2)}
Coordinates == {RInt(0), RInt(-40), RInt(130), Rat(7, 3)}
GeomInputs ==
    {[kind |-> "point", p |-> Pt(px, py), vp |-> [x |-> ox, y |-> oy, scale |-> sc]] :
        px \in Coordinates, py \in {RInt(0), Rat(7, 3)},
        ox \in Offsets, oy \in {RInt(0), RInt(-35)}, sc \in Tenths}

\* The render transform takes the model point to the window.
Project ==
    /\ inp.kind = "point" /\ out = NoValue
    /\ out' = [kind |-> "screen", pt |-> ToScreenSpace(inp.p, inp.vp)]
    /\ inp' = inp
    /\ FnFrame

\* toLocalCoordinates takes the window point back.
Unproject ==
    /\ inp.kind = "point" /\ out.kind = "screen"
    /\ out' = [kind |-> "model", pt |-> toLocalCoordinates(out.pt, inp.vp)]
    /\ inp' = inp
    /\ FnFrame

InitGeom ==
    /\ EditorInit("vsm", EmptyDiagram)
    /\ inp \in GeomInputs
    /\ out = NoValue
    /\ app = AppStart(ViewOf(editor))
    /\ timers = <<>>

NextGeom == Project \/ Unproject

SpecGeom == InitGeom /\ [][NextGeom]_vars

\* C7 -- Transform inverse: for every viewport (any offset, scale in
\* [0.2, 3.0]) and every model point p, mapping p to the window with the render
\* transform and back with toLocalCoordinates gives p again.
C7_TransformInverse ==
    out.kind = "model" => out.pt = inp.p

\* C7 witness: a point off the origin went through a panned and zoomed
\* viewport, to another place of the window, and back.
C7_Witness ==
    /\ out.kind = "model"
    /\ inp.vp.scale = Rat(3, 10) /\ inp.vp.x = Rat(241, 2)
    /\ inp.p.x = Rat(7, 3)
    /\ ToScreenSpace(inp.p, inp.vp) # inp.p

\* --------------------------------------------------- the wire-format bridge
\* A label is a sequence of characters; text written into the document is the
\* sequence of characters written.
Quote == "\""
AMP == <<"&", "a", "m", "p", ";">>
LT == <<"&", "l", "t", ";">>
GT == <<"&", "g", "t", ";">>
QUOT == <<"&", "q", "u", "o", "t", ";">>
APOS == <<"&", "a", "p", "o", "s", ";">>

\* String.prototype.replace(/c/g, rep)
RECURSIVE ReplaceAll(_, _, _)
ReplaceAll(str, c, rep) ==
    IF str = <<>> THEN <<>>
    ELSE (IF Head(str) = c THEN rep ELSE <<Head(str)>>) \o ReplaceAll(Tail(str), c, rep)

\* sanitizedLabel of jsonToBpmnXml
SanitizeLabel(label) ==
    ReplaceAll(ReplaceAll(ReplaceAll(label, "&", AMP), "<", LT), ">", GT)

\* The text of the name attribute of a sequence flow.
SanitizeEdgeLabel(label) == ReplaceAll(label, Quote, QUOT)

\* Number to text (template literal) for integers and halves, and back.
RECURSIVE Digits(_)
Digits(n) ==
    IF n < 10 THEN <<<<"0", "1", "2", "3", "4", "5", "6", "7", "8", "9">>[n + 1]>>
    ELSE Digits(n \div 10) \o Digits(n % 10)

NumberToString(v) ==
    LET neg == v[1] < 0
        whole == Abs(v[1]) \div v[2]
    IN  (IF neg THEN <<"-">> ELSE <<>>) \o Digits(whole)
        \o (IF v[2] = 2 THEN <<".", "5">> ELSE <<>>)

DigitValue(c) == CHOOSE d \in 0..9 : Digits(d) = <<c>>
RECURSIVE ParseDigits(_)
ParseDigits(str) ==
    IF str = <<>> THEN 0
    ELSE 10 * ParseDigits(SubSeq(str, 1, Len(str) - 1)) + DigitValue(str[Len(str)])

ParseNumber(str) ==
    LET neg == str # <<>> /\ Head(str) = "-"
        body == IF neg THEN Tail(str) ELSE str
        half == Len(body) >= 2 /\ body[Len(body) - 1] = "."
        int == IF half THEN SubSeq(body, 1, Len(body) - 2) ELSE body
        mag == IF half THEN Rat(2 * ParseDigits(int) + 1, 2) ELSE RInt(ParseDigits(int))
    IN  IF neg THEN RSub(RInt(0), mag) ELSE mag

\* getNodeDim
getNodeDim(type) ==
    IF type \in {"start", "end"} THEN [w |-> 36, h |-> 36]
    ELSE IF type = "gateway" THEN [w |-> 50, h |-> 50]
    ELSE [w |-> 100, h |-> 80]

FindNode(nodes, id) ==
    LET hits == {i \in 1..Len(nodes) : nodes[i].id = id}
    IN  IF hits = {} THEN NoValue ELSE nodes[MinOf(hits)]

FlowTag(type) ==
    IF type = "start" THEN "bpmn:startEvent"
    ELSE IF type = "end" THEN "bpmn:endEvent"
    ELSE IF type = "gateway" THEN "bpmn:exclusiveGateway"
    ELSE "bpmn:task"

\* Edge waypoints that never take the detour.
EdgeWaypointsDirect(source, target) ==
    LET sDim == getNodeDim(source.type)
        tDim == getNodeDim(target.type)
    IN  <<Pt(RAdd(source.x, RInt(sDim.w)), RAdd(source.y, Rat(sDim.h, 2))),
          Pt(target.x, RAdd(target.y, Rat(tDim.h, 2)))>>

\* The waypoints of a BPMNEdge: out of the source's right middle, into the
\* target's left middle, by a corner pair when the two differ in y by more than 10.
EdgeWaypoints(source, target) ==
    LET sDim == getNodeDim(source.type)
        tDim == getNodeDim(target.type)
        sx == RAdd(source.x, RInt(sDim.w))
        sy == RAdd(source.y, Rat(sDim.h, 2))
        tx == target.x
        ty == RAdd(target.y, Rat(tDim.h, 2))
        d == RSub(sy, ty)
        midX == RAdd(sx, RDiv(RSub(tx, sx), RInt(2)))
    IN  <<Pt(sx, sy)>>
        \o (IF Abs(d[1]) > 10 * d[2] THEN <<Pt(midX, sy), Pt(midX, ty)>> ELSE <<>>)
        \o <<Pt(tx, ty)>>

\* A test of the source end alone.
EdgeResolvesSource(d, e) == \E i \in 1..Len(d.nodes) : d.nodes[i].id = e.source

\* sourceExists && targetExists: the test before a sequenceFlow is written.
EdgeResolves(d, e) ==
    /\ \E i \in 1..Len(d.nodes) : d.nodes[i].id = e.source
    /\ \E i \in 1..Len(d.nodes) : d.nodes[i].id = e.target

\* source && target: the test before a BPMNEdge is written.
EdgeFound(d, e) ==
    FindNode(d.nodes, e.source) # NoValue /\ FindNode(d.nodes, e.target) # NoValue

\* jsonToBpmnXml: the document, as its element tree with the attribute texts
\* exactly as written.
jsonToBpmnXml(d) ==
    LET resolves(e) == EdgeResolves(d, e)
        found(e) == EdgeFound(d, e)
        valid == SelectSeq(d.edges, resolves)
        drawn == SelectSeq(d.edges, found)
    IN  [process |->
            [i \in 1..Len(d.nodes) |->
                [tag |-> FlowTag(d.nodes[i].type), id |-> d.nodes[i].id,
                 name |-> SanitizeLabel(d.nodes[i].label)]]
            \o [i \in 1..Len(valid) |->
                [tag |-> "bpmn:sequenceFlow", id |-> valid[i].id,
                 sourceRef |-> valid[i].source, targetRef |-> valid[i].target,
                 named |-> valid[i].label # <<>>,
                 name |-> SanitizeEdgeLabel(valid[i].label)]],
         plane |->
            [i \in 1..Len(d.nodes) |->
                [tag |-> "bpmndi:BPMNShape", bpmnElement |-> d.nodes[i].id,
                 x |-> NumberToString(d.nodes[i].x),
                 y |-> NumberToString(d.nodes[i].y),
                 width |-> getNodeDim(d.nodes[i].type).w,
                 height |-> getNodeDim(d.nodes[i].type).h]]
            \o [i \in 1..Len(drawn) |->
                [tag |-> "bpmndi:BPMNEdge", bpmnElement |-> drawn[i].id,
                 waypoints |->
                    LET w == EdgeWaypoints(FindNode(d.nodes, drawn[i].source),
                                           FindNode(d.nodes, drawn[i].target))
                    IN  [k \in 1..Len(w) |-> [x |-> NumberToString(w[k].x),
                                               y |-> NumberToString(w[k].y)]]]]]

\* The modelling widget (bpmn-js) reading the document.  An attribute text is
\* well formed when it holds no bare quote, no bare "<", and every "&" opens
\* one of the predefined entity references.
StartsWith(str, pre) == Len(str) >= Len(pre) /\ SubSeq(str, 1, Len(pre)) = pre
Entities == {<<AMP, "&">>, <<LT, "<">>, <<GT, ">">>, <<QUOT, Quote>>, <<APOS, "'">>}
EntityAt(str) == {e \in Entities : StartsWith(str, e[1])}

RECURSIVE AttrOk(_)
AttrOk(str) ==
    IF str = <<>> THEN TRUE
    ELSE IF Head(str) \in {Quote, "<"} THEN FALSE
    ELSE IF Head(str) = "&"
         THEN /\ EntityAt(str) # {}
              /\ AttrOk(SubSeq(str, Len((CHOOSE e \in EntityAt(str) : TRUE)[1]) + 1, Len(str)))
         ELSE AttrOk(Tail(str))

RECURSIVE Unescape(_)
Unescape(str) ==
    IF str = <<>> THEN <<>>
    ELSE IF Head(str) = "&" /\ EntityAt(str) # {}
         THEN LET e == CHOOSE e \in EntityAt(str) : TRUE
              IN  <<e[2]>> \o Unescape(SubSeq(str, Len(e[1]) + 1, Len(str)))
         ELSE <<Head(str)>> \o Unescape(Tail(str))

ElementOk(e) == IF e.tag = "bpmn:sequenceFlow" THEN ~e.named \/ AttrOk(e.name) ELSE AttrOk(e.name)

RegistryType(tag) ==
    IF tag = "bpmn:startEvent" THEN "bpmn:StartEvent"
    ELSE IF tag = "bpmn:endEvent" THEN "bpmn:EndEvent"
    ELSE IF tag = "bpmn:exclusiveGateway" THEN "bpmn:ExclusiveGateway"
    ELSE IF tag = "bpmn:task" THEN "bpmn:Task"
    ELSE "bpmn:SequenceFlow"

FindShape(doc, id) ==
    LET hits == {i \in 1..Len(doc.plane) : doc.plane[i].bpmnElement = id}
    IN  IF hits = {} THEN NoValue ELSE doc.plane[MinOf(hits)]

\* The element registry after importXML(doc).  A document with a malformed
\* element is either refused as a whole (strict) or read without that element.
WidgetImport(doc, strict) ==
    LET bad == {i \in 1..Len(doc.process) : ~ElementOk(doc.process[i])}
        read == SelectSeq(doc.process, ElementOk)
        shapeIds == {read[i].id : i \in {j \in 1..Len(read) : read[j].tag # "bpmn:sequenceFlow"}}
        drawn(e) == /\ FindShape(doc, e.id) # NoValue
                    /\ e.tag = "bpmn:sequenceFlow" =>
                          e.sourceRef \in shapeIds /\ e.targetRef \in shapeIds
        shown == SelectSeq(read, drawn)
        element(e) ==
            IF e.tag = "bpmn:sequenceFlow"
            THEN [type |-> "bpmn:SequenceFlow",
                  businessObject |-> [id |-> e.id,
                                      name |-> IF e.named THEN Unescape(e.name) ELSE <<>>,
                                      sourceRef |-> [id |-> e.sourceRef],
                                      targetRef |-> [id |-> e.targetRef]]]
            ELSE [type |-> RegistryType(e.tag),
                  x |-> ParseNumber(FindShape(doc, e.id).x),
                  y |-> ParseNumber(FindShape(doc, e.id).y),
                  businessObject |-> [id |-> e.id, name |-> Unescape(e.name)]]
        label(e) == [type |-> "label", businessObject |-> element(e).businessObject]
        labelled(e) == e.tag \notin {"bpmn:task"} /\ element(e).businessObject.name # <<>>
        labels == SelectSeq(shown, labelled)
    IN  IF strict /\ bad # {} THEN <<>>
        ELSE <<[type |-> "bpmn:Process", businessObject |-> [id |-> "Process_1"]]>>
             \o [i \in 1..Len(shown) |-> element(shown[i])]
             \o [i \in 1..Len(labels) |-> label(labels[i])]

DefaultMetrics ==
    [cycleTime |-> 0, waitingTime |-> 0, cost |-> 0, errorRate |-> 0,
     changeoverTime |-> 0, uptime |-> 100]

\* getMetrics of extractProcessMapFromModeler
getMetrics(existingNodes, id) ==
    LET existing == FindNode(existingNodes, id)
    IN  IF existing # NoValue /\ "metrics" \in DOMAIN existing
        THEN existing.metrics ELSE DefaultMetrics

\* A property read: undefined when the object has no such property.
Undefined == <<>>
Field(el, f) == IF f \in DOMAIN el THEN el[f] ELSE Undefined

OrDefault(name, dflt) == IF name = <<>> THEN dflt ELSE name

\* The node extractProcessMapFromModeler pushes for a registry element.
ImportedNode(el, existingNodes) ==
    LET bo == el.businessObject
    IN  IF el.type \in {"bpmn:Task", "bpmn:UserTask", "bpmn:ServiceTask"}
        THEN [id |-> bo.id, type |-> "task", label |-> OrDefault(bo.name, <<"T", "a", "s", "k">>),
              x |-> Field(el, "x"), y |-> Field(el, "y"), metrics |-> getMetrics(existingNodes, bo.id)]
        ELSE IF el.type = "bpmn:StartEvent"
        THEN [id |-> bo.id, type |-> "start",
              label |-> OrDefault(bo.name, <<"S", "t", "a", "r", "t">>),
              x |-> Field(el, "x"), y |-> Field(el, "y"), metrics |-> getMetrics(existingNodes, bo.id)]
        ELSE IF el.type = "bpmn:EndEvent"
        THEN [id |-> bo.id, type |-> "end", label |-> OrDefault(bo.name, <<"E", "n", "d">>),
              x |-> Field(el, "x"), y |-> Field(el, "y"), metrics |-> getMetrics(existingNodes, bo.id)]
        ELSE [id |-> bo.id, type |-> "gateway",
              label |-> OrDefault(bo.name, <<"G", "a", "t", "e", "w", "a", "y">>),
              x |-> Field(el, "x"), y |-> Field(el, "y")]

NodeTypes ==
    {"bpmn:Task", "bpmn:UserTask", "bpmn:ServiceTask", "bpmn:StartEvent", "bpmn:EndEvent",
     "bpmn:ExclusiveGateway", "bpmn:InclusiveGateway"}

\* The body of extractProcessMapFromModeler(modeler, existingNodes), registry
\* being what modeler.get('elementRegistry') iterates over: the diagram it builds,
\* or the TypeError raised by reading a property of an undefined businessObject.
ExtractBody(registry, existingNodes) ==
    LET isNode(el) == el.type \in NodeTypes
        isFlow(el) == /\ el.type = "bpmn:SequenceFlow"
                      /\ "sourceRef" \in DOMAIN el.businessObject
                      /\ "targetRef" \in DOMAIN el.businessObject
        throws == \E i \in 1..Len(registry) :
                     /\ registry[i].type \in NodeTypes \cup {"bpmn:SequenceFlow"}
                     /\ "businessObject" \notin DOMAIN registry[i]
        ns == SelectSeq(registry, isNode)
        fs == SelectSeq(registry, isFlow)
    IN  IF throws THEN [kind |-> "throw"]
        ELSE [kind |-> "map",
              nodes |-> [i \in 1..Len(ns) |-> ImportedNode(ns[i], existingNodes)],
              edges |-> [i \in 1..Len(fs) |->
                           [id |-> fs[i].businessObject.id,
                            source |-> fs[i].businessObject.sourceRef.id,
                            target |-> fs[i].businessObject.targetRef.id,
                            label |-> fs[i].businessObject.name]]]

\* The body without its try/catch.
ExtractUnguarded(registry, existingNodes) == ExtractBody(registry, existingNodes)

\* extractProcessMapFromModeler: the body inside try/catch; the catch returns
\* the empty diagram.
extractProcessMapFromModeler(registry, existingNodes) ==
    LET r == ExtractBody(registry, existingNodes)
    IN  IF r.kind = "throw" THEN [kind |-> "map", nodes |-> <<>>, edges |-> <<>>] ELSE r

\* Inputs of the bridge: up to two nodes, up to one edge.
NodeLabels == {<<>>, <<"a">>, <<"a", Quote>>, <<"<", "&">>, <<">">>}
EdgeLabels == {<<>>, <<"a">>, <<Quote>>, <<"&">>}
WireNode(id, type, label, x, y) ==
    [id |-> id, type |-> type, label |-> label, x |-> RInt(x), y |-> RInt(y),
     metrics |-> [cycleTime |-> 7, waitingTime |-> 0]]
WireNodes ==
    {<<>>}
    \cup {<<WireNode("n1", t, l, 100, 100)>> : t \in {"start", "task"}, l \in NodeLabels}
    \cup {<<WireNode("n1", t1, l, 100, 100), WireNode("n2", t2, <<"b">>, x2, y2)>> :
            t1 \in {"start", "task"}, l \in NodeLabels, t2 \in {"task", "gateway", "end"},
            x2 \in {105, 300}, y2 \in {-20, 100, 108, 115}}
WireEdges ==
    {<<>>}
    \cup {<<[id |-> "e1", source |-> "n1", target |-> tg, label |-> l]>> :
            tg \in {"n2", "n9"}, l \in EdgeLabels}
    \cup {<<[id |-> "e1", source |-> "n1", target |-> "n2", label |-> <<>>],
             [id |-> "e2", source |-> src, target |-> tg, label |-> <<>>]>> :
            src \in {"n2", "n9"}, tg \in {"n1", "n9"}}
WireInputs == {[kind |-> "map", nodes |-> n, edges |-> e] : n \in WireNodes, e \in WireEdges}

\* ------------------------------------------ the value-stream connector paths
\* VSMEditor.getSnapRect: the centre and the size of the step's box.
getSnapRect(step) ==
    LET size == IF step.role = "process" THEN <<120, 60>>
                ELSE IF step.role \in {"supplier", "customer"} THEN <<90, 45>>
                ELSE IF step.role = "production-control" THEN <<120, 40>>
                ELSE IF step.role = "inventory" THEN <<30, 30>>
                ELSE IF step.role = "kaizen" THEN <<50, 50>>
                ELSE IF step.role = "transport" THEN <<40, 40>>
                ELSE <<60, 60>>
    IN  [x |-> RInt(step.x), y |-> RInt(step.y), w |-> RInt(size[1]), h |-> RInt(size[2])]

Half(v) == RDiv(v, RInt(2))
RAbs(v) == <<Abs(v[1]), v[2]>>
RPos(v) == v[1] > 0

\* VSMEditor.getConnectorPoints
getConnectorPoints(source, target) ==
    LET sRect == getSnapRect(source)
        tRect == getSnapRect(target)
        dx == RSub(tRect.x, sRect.x)
        dy == RSub(tRect.y, sRect.y)
        across == ~RLe(RAbs(dx), RAbs(dy))
    IN  IF across
        THEN [x1 |-> IF RPos(dx) THEN RAdd(sRect.x, Half(sRect.w)) ELSE RSub(sRect.x, Half(sRect.w)),
              y1 |-> sRect.y,
              x2 |-> IF RPos(dx) THEN RSub(tRect.x, Half(tRect.w)) ELSE RAdd(tRect.x, Half(tRect.w)),
              y2 |-> tRect.y]
        ELSE [x1 |-> sRect.x,
              y1 |-> IF RPos(dy) THEN RAdd(sRect.y, Half(sRect.h)) ELSE RSub(sRect.y, Half(sRect.h)),
              x2 |-> tRect.x,
              y2 |-> IF RPos(dy) THEN RSub(tRect.y, Half(tRect.h)) ELSE RAdd(tRect.y, Half(tRect.h))]

\* Math.sqrt, on the squares of rationals.
Root(n) == CHOOSE r \in 0..n : r * r = n
RSqrt(v) == <<Root(v[1]), Root(v[2])>>

\* VSMEditor.renderConnector: the path drawn for a connector, as its command
\* and the points the command names; no path when an end is missing.
renderConnector(conn, d) ==
    LET source == FindStep(d, conn.source)
        target == FindStep(d, conn.target)
        c == getConnectorPoints(source, target)
        midX == RAdd(c.x1, Half(RSub(c.x2, c.x1)))
        midY == RAdd(c.y1, Half(RSub(c.y2, c.y1)))
        dx == RSub(c.x2, c.x1)
        dy == RSub(c.y2, c.y1)
        len == RSqrt(RAdd(RMul(dx, dx), RMul(dy, dy)))
        ux == RDiv(dx, len)
        uy == RDiv(dy, len)
        px == RSub(RInt(0), uy)
        py == ux
        along(m, k, u) == RAdd(m, RMul(RInt(k), u))
        line == <<Pt(c.x1, c.y1), Pt(c.x2, c.y2)>>
    IN  IF source = NoValue \/ target = NoValue THEN [shape |-> "none", points |-> <<>>]
        ELSE IF conn.type = "electronic"
        THEN IF ~RLe(RInt(1), len) THEN [shape |-> "line", points |-> line]
             ELSE [shape |-> "zigzag",
                   points |-> <<Pt(c.x1, c.y1),
                                Pt(along(midX, -12, ux), along(midY, -12, uy)),
                                Pt(RSub(along(midX, -4, ux), RMul(RInt(8), px)),
                                   RSub(along(midY, -4, uy), RMul(RInt(8), py))),
                                Pt(RAdd(along(midX, 4, ux), RMul(RInt(8), px)),
                                   RAdd(along(midY, 4, uy), RMul(RInt(8), py))),
                                Pt(along(midX, 12, ux), along(midY, 12, uy)),
                                Pt(c.x2, c.y2)>>]
        ELSE IF conn.type \in {"manual", "push"} THEN [shape |-> "line", points |-> line]
        ELSE IF conn.type = "pull"
        THEN [shape |-> "curve",
              points |-> <<Pt(c.x1, c.y1), Pt(midX, RAdd(c.y1, RInt(50))), Pt(c.x2, c.y2)>>]
        ELSE [shape |-> "none", points |-> <<>>]

RouteInputs ==
    {[kind |-> "route",
      steps |-> <<Step(1, "process", 100, 100), Step(2, role, x, y)>>,
      connectors |-> <<Connector(3, 1, 2, type)>>] :
        role \in {"process", "inventory"}, x \in {100, 105, 300}, y \in {100, 108, 200},
        type \in {"push", "pull", "manual"}}
    \cup
    {[kind |-> "route",
      steps |-> <<Step(1, "process", 100, 100), Step(2, "process", x, y)>>,
      connectors |-> <<Connector(3, 1, 2, "electronic")>>] :
        x \in {100}, y \in {100, 200}}
    \cup
    {[kind |-> "route",
      steps |-> <<Step(1, "process", 100, 100), Step(2, "process", 300, 200)>>,
      connectors |-> <<Connector(3, 1, 2, "push"), Connector(4, src, tg, type)>>] :
        src \in {1, 9}, tg \in {2, 9}, type \in {"push", "pull"}}

Render ==
    /\ inp.kind = "route" /\ out = NoValue
    /\ out' = [kind |-> "paths",
               paths |-> [i \in 1..Len(inp.connectors) |->
                            renderConnector(inp.connectors[i], inp)]]
    /\ inp' = inp
    /\ FnFrame

Export ==
    /\ inp.kind = "map" /\ out = NoValue
    /\ out' = [kind |-> "xml", doc |-> jsonToBpmnXml(inp)]
    /\ inp' = inp
    /\ FnFrame

Import(strict) ==
    /\ inp.kind = "map" /\ out.kind = "xml"
    /\ out' = extractProcessMapFromModeler(WidgetImport(out.doc, strict), inp.nodes)
    /\ inp' = inp
    /\ FnFrame

InitWire ==
    /\ EditorInit("vsm", EmptyDiagram)
    /\ inp \in WireInputs \cup RouteInputs
    /\ out = NoValue
    /\ app = AppStart(ViewOf(editor))
    /\ timers = <<>>

NextWire ==
    \/ Export
    \/ Render
    \/ \E strict \in BOOLEAN : Import(strict)

SpecWire == InitWire /\ [][NextWire]_vars

Positions(nodes) == {<<nodes[i].id, nodes[i].x, nodes[i].y>> : i \in 1..Len(nodes)}

\* C4 as stated -- Wire round trip: the diagram imported from the exported
\* document has the same set of node ids as the diagram exported, each at the
\* same position.
C4_WireRoundTrip ==
    (inp.kind = "map" /\ out.kind = "map") => Positions(out.nodes) = Positions(inp.nodes)

\* The centre of a flow node's box.
Centre(n) ==
    Pt(RAdd(n.x, Rat(getNodeDim(n.type).w, 2)), RAdd(n.y, Rat(getNodeDim(n.type).h, 2)))
Within(v, tol) == RLe(RAbs(v), RInt(tol))
Perpendicular(a, b, c) ==
    /\ a # b /\ b # c
    /\ RAdd(RMul(RSub(b.x, a.x), RSub(c.x, b.x)), RMul(RSub(b.y, a.y), RSub(c.y, b.y))) = RInt(0)
ParsePoints(w) == [k \in 1..Len(w) |-> Pt(ParseNumber(w[k].x), ParseNumber(w[k].y))]
DiEdges(doc) == SelectSeq(doc.plane, LAMBDA r : r.tag = "bpmndi:BPMNEdge")
FlowOf(doc, id) ==
    doc.process[CHOOSE i \in 1..Len(doc.process) : doc.process[i].id = id]

\* The rule of the claim for one path between centres dx, dy apart.
ElbowRule(dx, dy, pts) ==
    /\ (~Within(dy, 10) /\ Within(dx, 10)) =>
          /\ Len(pts) = 4
          /\ Perpendicular(pts[1], pts[2], pts[3])
          /\ Perpendicular(pts[2], pts[3], pts[4])
    /\ (Within(dy, 10) /\ Within(dx, 10)) => Len(pts) = 2

Idle == ~isPanning /\ draggedStepId = Null /\ connectMode = NoMode
Connecting == ~isPanning /\ draggedStepId = Null /\ connectMode # NoMode
References(d, id) ==
    {i \in 1..Len(d.connectors) : d.connectors[i].source = id \/ d.connectors[i].target = id}

\* C1 -- Cascade delete: whenever a step of the value-stream or case editor
\* removes a node n from the diagram, the diagram it yields has no connector
\* whose source or target is n.
C1_CascadeDelete ==
    [][(editor \in Canvas) =>
         \A n \in StepIds(data) \ StepIds(data') : References(data', n) = {}]_vars

\* C1 witness: a node with incident connectors was deleted.
C1_Witness ==
    /\ editor \in Canvas
    /\ ev.op = "deleteStep" /\ ev.n > 0
    /\ ev.id \notin StepIds(data)

\* C8 -- Connecting transitions: in Connecting(A) a press on a node B # A turns
\* connect mode off, clears the pending source, starts no drag and appends
\* exactly one connector A -> B of the active kind; a press on A itself does the
\* same without changing the diagram; and no connector ever has source = target.
C8_ConnectingTransitions ==
    /\ [][(/\ editor \in Canvas /\ Connecting /\ connectionSource # Null
           /\ ev'.seq # ev.seq /\ ev'.op = "nodeDown")
          => /\ connectMode' = NoMode /\ connectionSource' = Null
             /\ ~isPanning' /\ draggedStepId' = Null
             /\ data' = IF ev'.id # connectionSource
                        THEN [data EXCEPT !.connectors =
                                Append(@, [id |-> uuid', source |-> connectionSource,
                                           target |-> ev'.id, type |-> connectMode])]
                        ELSE data]_vars
    /\ [](editor \in Canvas =>
            \A i \in 1..Len(data.connectors) :
               data.connectors[i].source # data.connectors[i].target)

\* C8 witness: the second press of a connect gesture landed on another node
\* than the pending source; the connector is there and the controller is Idle.
C8_Witness ==
    /\ editor \in Canvas
    /\ ev.op = "nodeDown" /\ ev.n = 2
    /\ Idle /\ connectionSource = Null
    /\ \E i \in 1..Len(data.connectors) :
          /\ data.connectors[i].id = uuid
          /\ data.connectors[i].target = ev.id
          /\ data.connectors[i].source # ev.id

\* C9 as stated -- a press of the primary button on empty canvas clears the
\* selection, in every editor.  The editor is given until the end of the press
\* gesture (the release, and the click it raises, without any movement between):
\* by then the selection must be empty.
C9_CanvasPressClearsSelection ==
    [][(/\ ev'.seq # ev.seq
        /\ pointer.on = "canvas" /\ pointer.button = 0
        /\ pointer'.phase = "up" /\ ~hasPanningMoved')
       => /\ selectedStepId' = Null /\ selectedConnectorId' = Null
          /\ selection' = NoSelection]_vars

C11_ListenerNoLeak ==
    /\ nMove \in 0..1 /\ nUp \in 0..1
    /\ ~mounted => (nMove = 0 /\ nUp = 0)

\* C11 witness: the editor was unmounted in the middle of a gesture, after its
\* handlers had been re-registered at least once, and no listener is left.
C11_Witness ==
    /\ ~mounted /\ ev.op = "unmount" /\ ev.n = 1
    /\ nMove = 0 /\ nUp = 0
    /\ ev.seq >= 3

\* --------------------------------------------------- generation requests
GenFrame == UNCHANGED <<ctlVars, edVars, inp, out, timers>>

\* The local state of the editor a view renders: dropped with the component.
FreshEditor(a, v) ==
    [a EXCEPT !.view = v, !.inst = a.inst + 1,
              !.localGenerating = FALSE, !.isAnalyzing = FALSE,
              !.showAIModal = FALSE, !.showMineModal = FALSE]

\* A sidebar item: setView(item.id).  The modals of the editors other than the
\* Fishbone editor cover the whole window.
setView(v) ==
    /\ v # app.view /\ app.inst < MaxMounts
    /\ (app.showAIModal \/ app.showMineModal) => app.view = "rca"
    /\ app' = [FreshEditor(app, v) EXCEPT !.last = [op |-> "setView"]]
    /\ GenFrame

\* The toolbar's AI button: setShowAIModal(true).
openAIModal ==
    /\ ~app.showAIModal /\ ~app.showMineModal
    /\ AIButtonEnabled(app)
    /\ app' = [app EXCEPT !.showAIModal = TRUE, !.last = [op |-> "openAI"]]
    /\ GenFrame

\* ProcessEditor's Mining button: setShowMineModal(true); it is never disabled.
openMineModal ==
    /\ app.view = "editor"
    /\ ~app.showAIModal /\ ~app.showMineModal
    /\ app' = [app EXCEPT !.showMineModal = TRUE, !.last = [op |-> "openMine"]]
    /\ GenFrame

\* The modal's Cancel button.
closeModal ==
    /\ app.showAIModal \/ app.showMineModal
    /\ app' = [app EXCEPT !.showAIModal = FALSE, !.showMineModal = FALSE,
                          !.last = [op |-> "cancel"]]
    /\ GenFrame

\* The AI modal's Generate button, up to the handler's await: the App's
\* handleGenerate* (setIsGenerating(true), the request) or the Fishbone editor's
\* handleFullGenerate (its own flag), and the modal is closed.
handleGenerate(prompt) ==
    /\ app.showAIModal /\ app.issued < MaxRequests
    /\ GenerateEnabled(app, prompt)
    /\ LET id == app.issued + 1
           owner == IF app.view = "rca" THEN "editor" ELSE "app"
           r == Request(id, "generate", Part(app.view), owner, app.inst)
       IN  app' = [app EXCEPT !.isGenerating = IF owner = "app" THEN TRUE ELSE @,
                              !.localGenerating = IF owner = "editor" THEN TRUE ELSE @,
                              !.showAIModal = FALSE,
                              !.pending = @ \cup {r},
                              !.issued = id,
                              !.last = [op |-> "generate", req |-> r]]
    /\ GenFrame

\* The Mining modal's button: onMine(mineInput), App.handleMineProcess up to its
\* await, and the modal is closed.
handleMineProcess ==
    /\ app.showMineModal /\ app.issued < MaxRequests
    /\ LET id == app.issued + 1
           r == Request(id, "mine", "processMap", "app", app.inst)
       IN  app' = [app EXCEPT !.isGenerating = TRUE,
                              !.showMineModal = FALSE,
                              !.pending = @ \cup {r},
                              !.issued = id,
                              !.last = [op |-> "mine", req |-> r]]
    /\ GenFrame

\* VSMEditor.handleRunAnalysis up to its await; the button is disabled while
\* isAnalyzing.
handleRunAnalysis ==
    /\ app.view = "vsm" /\ ~app.showAIModal /\ ~app.isAnalyzing
    /\ app.issued < MaxRequests
    /\ LET id == app.issued + 1
           r == Request(id, "analyze", "vsm", "editor", app.inst)
       IN  app' = [app EXCEPT !.isAnalyzing = TRUE,
                              !.pending = @ \cup {r},
                              !.issued = id,
                              !.last = [op |-> "analyze", req |-> r]]
    /\ GenFrame

\* The collaborator answers (ok) or fails (the service catches the error and
\* returns null) and the handler's continuation runs: the result, if any,
\* replaces the part, and the flag the handler had set is cleared.  A flag of an
\* editor that was unmounted meanwhile is gone with it.
Resolve(r, ok) ==
    /\ r \in app.pending
    /\ LET here == r.inst = app.inst
       IN  app' = [app EXCEPT
              !.project = ApplyResult(@, r, ok),
              !.isGenerating = IF r.owner = "app" THEN FALSE ELSE @,
              !.localGenerating =
                  IF r.owner = "editor" /\ r.service = "generate" /\ here THEN FALSE ELSE @,
              !.isAnalyzing =
                  IF r.service = "analyze" /\ here THEN FALSE ELSE @,
              !.pending = @ \ {r},
              !.last = [op |-> "resolve", req |-> r, ok |-> ok]]
    /\ GenFrame

InitGen ==
    /\ EditorInit("vsm", EmptyDiagram)
    /\ inp = NoValue /\ out = NoValue
    /\ \E v \in Views : app = AppStart(v)
    /\ timers = <<>>

NextGen ==
    \/ \E v \in Views : setView(v)
    \/ openAIModal
    \/ openMineModal
    \/ closeModal
    \/ \E prompt \in Prompts : handleGenerate(prompt)
    \/ handleMineProcess
    \/ handleRunAnalysis
    \/ \E r \in app.pending : \E ok \in BOOLEAN : Resolve(r, ok)

SpecGen == InitGen /\ [][NextGen]_vars

\* The generation requests in flight.
InFlight == {r \in app.pending : r.service \in {"generate", "mine"}}

\* C12 -- generation latch: at most one generation request is in flight at any
\* time, over all generate entry points, and while a request issued by an App
\* handler is in flight the App's isGenerating flag is set.
C12_GenerationLatch ==
    /\ Cardinality(InFlight) <= 1
    /\ (\E r \in InFlight : r.owner = "app") => app.isGenerating

\* C13 -- collaborator failure: the step in which a request's continuation runs
\* on a null result leaves every part of the project as it was and leaves the
\* flag that request's handler had set cleared (the App's isGenerating; for the
\* Fishbone generate and the VSM analysis the flag of the editor instance that
\* issued the request, while that instance is still mounted).
C13_FailureLeavesDiagram ==
    [][(/\ app'.pending # app.pending /\ app'.pending \subseteq app.pending
        /\ ~app'.last.ok)
       => LET r == app'.last.req
          IN  /\ app'.project = app.project
              /\ r.owner = "app" => ~app'.isGenerating
              /\ (r.owner = "editor" /\ r.inst = app.inst) =>
                    IF r.service = "analyze" THEN ~app'.isAnalyzing
                    ELSE ~app'.localGenerating]_vars

\* C13 witness: a generation succeeded and replaced its part, a later request
\* failed, and the part still holds the earlier result with the flag cleared.
C13_Witness ==
    /\ app.last # NoValue /\ app.last.op = "resolve" /\ ~app.last.ok
    /\ app.last.req.owner = "app"
    /\ app.project[app.last.req.part] \notin {0, app.last.req.id}
    /\ ~app.isGenerating

\* ------------------------------------------------- import of any registry
\* Elements a registry can hold: the process container, a label, well-formed
\* flow nodes, a task without a business object, a task without geometry, an
\* element kind the import has no node for, and sequence flows between them.
Shape(type, id, x, y) ==
    [type |-> type, x |-> RInt(x), y |-> RInt(y), businessObject |-> [id |-> id, name |-> <<"a">>]]
FlowElement(id, src, tgt) ==
    [type |-> "bpmn:SequenceFlow",
     businessObject |-> [id |-> id, name |-> <<>>, sourceRef |-> [id |-> src],
                         targetRef |-> [id |-> tgt]]]
RegistryElements ==
    {[type |-> "bpmn:Process", businessObject |-> [id |-> "Process_1", name |-> <<>>]],
     [type |-> "label", businessObject |-> [id |-> "n2", name |-> <<"a">>]],
     Shape("bpmn:Task", "n1", 100, 100),
     Shape("bpmn:StartEvent", "n2", 10, 120),
     Shape("bpmn:EndEvent", "n2", 400, 120),
     Shape("bpmn:ExclusiveGateway", "g1", 250, 115),
     Shape("bpmn:IntermediateThrowEvent", "x1", 300, 120),
     [type |-> "bpmn:Task"],
     [type |-> "bpmn:SequenceFlow"],
     [type |-> "bpmn:UserTask", businessObject |-> [id |-> "n2", name |-> <<>>]],
     [type |-> "bpmn:SequenceFlow", businessObject |-> [id |-> "f2", name |-> <<>>,
                                                        sourceRef |-> [id |-> "n1"]]]}
    \cup {FlowElement("f1", src, tgt) : src \in {"n1", "g1"}, tgt \in {"n2", "x1"}}
\* The widget's registry holds both ends of every connection it holds.
Connected(r) ==
    LET held == {r[i].businessObject.id :
                    i \in {j \in 1..Len(r) : /\ "businessObject" \in DOMAIN r[j]
                                              /\ "x" \in DOMAIN r[j]}}
    IN  \A i \in 1..Len(r) :
            ("businessObject" \in DOMAIN r[i]) =>
                /\ ("sourceRef" \in DOMAIN r[i].businessObject) =>
                       r[i].businessObject.sourceRef.id \in held
                /\ ("targetRef" \in DOMAIN r[i].businessObject) =>
                       r[i].businessObject.targetRef.id \in held
Registries == {r \in SeqsUpTo(RegistryElements, MaxElements) : Connected(r)}

\* The previous snapshot's nodes handed to the import.
Snapshot(id, type) ==
    [id |-> id, type |-> type, label |-> <<"a">>, x |-> RInt(0), y |-> RInt(0),
     metrics |-> [cycleTime |-> 7, waitingTime |-> 3, cost |-> 0, errorRate |-> 0,
                  changeoverTime |-> 0, uptime |-> 90]]
Snapshots ==
    {<<>>, <<Snapshot("n1", "task")>>, <<Snapshot("n2", "start"), Snapshot("g1", "gateway")>>}
ImportInputs ==
    {[kind |-> "registry", registry |-> r, nodes |-> s] : r \in Registries, s \in Snapshots}

\* extractProcessMapFromModeler(modeler, existingNodes) called on the registry;
\* out is what the caller gets: the returned diagram, or the exception.
ImportRegistry ==
    /\ inp.kind = "registry" /\ out = NoValue
    /\ out' = extractProcessMapFromModeler(inp.registry, inp.nodes)
    /\ inp' = inp
    /\ FnFrame

InitImport ==
    /\ EditorInit("vsm", EmptyDiagram)
    /\ inp \in ImportInputs
    /\ out = NoValue
    /\ app = AppStart(ViewOf(editor))
    /\ timers = <<>>

NextImport == ImportRegistry

SpecImport == InitImport /\ [][NextImport]_vars

\* A registry with a flow node or a sequence flow that has no business object.
Malformed(registry) ==
    \E i \in 1..Len(registry) :
        /\ registry[i].type \notin {"bpmn:Process", "label"}
        /\ "businessObject" \notin DOMAIN registry[i]
NodeIds(nodes) == {nodes[i].id : i \in 1..Len(nodes)}

\* C14 -- import never throws: for every registry, with elements that miss
\* their business object or their geometry included, the import returns a
\* diagram, and for a registry with an element without business object it
\* returns the empty diagram.
C14_ImportNeverThrows ==
    (inp.kind = "registry" /\ out # NoValue) =>
        /\ out.kind = "map"
        /\ Malformed(inp.registry) => (out.nodes = <<>> /\ out.edges = <<>>)

\* C14 witness: a registry with a well-formed task and an element without a
\* business object was imported, and the result is the empty diagram.
C14_Witness ==
    /\ inp.kind = "registry" /\ out # NoValue
    /\ Malformed(inp.registry)
    /\ \E i \in 1..Len(inp.registry) : inp.registry[i] = Shape("bpmn:Task", "n1", 100, 100)
    /\ out.kind = "map" /\ out.nodes = <<>>

\* C15 -- import edge resolution: every edge of an imported diagram has a
\* source and a target that are ids of nodes of that same diagram.
C15_ImportEdgesResolve ==
    (inp.kind = "registry" /\ out # NoValue /\ out.kind = "map") =>
        \A i \in 1..Len(out.edges) :
            /\ out.edges[i].source \in NodeIds(out.nodes)
            /\ out.edges[i].target \in NodeIds(out.nodes)

\* C16 -- import metric recovery: every imported node, of every kind, carries
\* the metrics of the snapshot node with its id when there is one and the
\* default metrics otherwise.
C16_ImportMetricRecovery ==
    (inp.kind = "registry" /\ out # NoValue /\ out.kind = "map") =>
        \A i \in 1..Len(out.nodes) :
            LET n == out.nodes[i]
                prev == FindNode(inp.nodes, n.id)
            IN  /\ "metrics" \in DOMAIN n
                /\ n.metrics = IF prev # NoValue THEN prev.metrics ELSE DefaultMetrics

\* C17 -- invalid edges are dropped, never raised: the export of any diagram
\* yields a document whose sequence flows, and whose edge records, are those of
\* exactly the edges with both ends among the diagram's nodes, in order; the
\* value-stream editor draws nothing for a connector with a missing end and a
\* path for every other one.
C17_InvalidEdgesDropped ==
    /\ (inp.kind = "map" /\ out.kind = "xml") =>
          LET ok == SelectSeq(inp.edges, LAMBDA e : /\ e.source \in NodeIds(inp.nodes)
                                                     /\ e.target \in NodeIds(inp.nodes))
              flows == SelectSeq(out.doc.process, LAMBDA r : r.tag = "bpmn:sequenceFlow")
              records == DiEdges(out.doc)
          IN  /\ Ids(flows) = Ids(ok)
              /\ [i \in 1..Len(records) |-> records[i].bpmnElement] = Ids(ok)
    /\ (inp.kind = "route" /\ out.kind = "paths") =>
          /\ Len(out.paths) = Len(inp.connectors)
          /\ \A i \in 1..Len(inp.connectors) :
                (out.paths[i].shape = "none") <=>
                    ~(/\ inp.connectors[i].source \in StepIds(inp)
                      /\ inp.connectors[i].target \in StepIds(inp))

\* C17 witness: a diagram with a valid edge and an edge to a missing node was
\* exported, and the document has the one sequence flow.
C17_Witness ==
    /\ inp.kind = "map" /\ out.kind = "xml"
    /\ Len(inp.edges) = 2 /\ Len(DiEdges(out.doc)) = 1
    /\ \E i \in 1..2 : inp.edges[i].target \notin NodeIds(inp.nodes)

\* A text with no reserved character of its own: no quote, "<" or ">", and
\* every "&" opening an entity reference.
RECURSIVE NoBareReserved(_)
NoBareReserved(str) ==
    IF str = <<>> THEN TRUE
    ELSE IF Head(str) \in {Quote, "<", ">"} THEN FALSE
    ELSE IF Head(str) = "&"
         THEN \E e \in Entities :
                 /\ StartsWith(str, e[1])
                 /\ NoBareReserved(SubSeq(str, Len(e[1]) + 1, Len(str)))
         ELSE NoBareReserved(Tail(str))

\* C18 -- export escaping: in the exported document the name written for any
\* node and for any labelled edge holds no unescaped &, <, > or double quote.
C18_ExportEscaping ==
    (inp.kind = "map" /\ out.kind = "xml") =>
        \A i \in 1..Len(out.doc.process) :
            LET e == out.doc.process[i]
            IN  (e.tag = "bpmn:sequenceFlow" => e.named) => NoBareReserved(e.name)

\* C20 -- id uniqueness: in the diagram a lift produces, the node ids are
\* pairwise distinct and the edge ids are pairwise distinct.
C20_IdUniqueness ==
    (inp.kind \in {"vsm", "sipoc"} /\ out # NoValue) =>
        /\ Distinct(Ids(out.nodes))
        /\ Distinct(Ids(out.edges))

\* ------------------------------------------------ the lifts, applied again
\* A customer placed right after the last process step.
CustomerXFree(x) == x

\* customerX = Math.max(x, 800)
CustomerX(x) == IF x > 800 THEN x ELSE 800

\* convertSipocToVsm(sipoc); base is the number of ids crypto.randomUUID() has
\* handed out before the call, and the ids are drawn in the order of the calls.
convertSipocToVsm(sipoc, base) ==
    LET zero == [cycleTime |-> 0, changeoverTime |-> 0, uptime |-> 100,
                 inventoryCount |-> 0, leadTime |-> 0]
        step(id, name, role, x, y) ==
            [id |-> id, name |-> name, role |-> role, x |-> x, y |-> y, data |-> zero]
        processList == IF Len(sipoc.process) > 0 THEN sipoc.process
                       ELSE <<"Process Step 1">>
        n == Len(processList)
        pId(i) == IF i = 1 THEN base + 3 ELSE base + 2 * i
        customerId == base + 2 * n + 2
        x == 100 + 200 * n
    IN  [kind |-> "vsm",
         steps |->
            <<step(base + 1, IF Len(sipoc.suppliers) > 0 THEN sipoc.suppliers[1]
                             ELSE "Supplier", "supplier", 100, 100),
              step(base + 2, "Production Control", "production-control", 450, 100)>>
            \o [i \in 1..n |-> step(pId(i), processList[i], "process", 100 + 200 * (i - 1), 400)]
            \o <<step(customerId, IF Len(sipoc.customers) > 0 THEN sipoc.customers[1]
                                   ELSE "Customer", "customer",
                      CustomerX(x), 100)>>,
         connectors |->
            [i \in 1..(n - 1) |-> Connector(base + 2 * i + 3, pId(i), pId(i + 1), "push")]
            \o <<Connector(base + 2 * n + 3, pId(n), customerId, "transport")>>,
         totalLeadTime |-> 0, totalProcessTime |-> 0, efficiency |-> 0,
         customerDemand |-> 100, availableTime |-> 27000]

\* The ids one call of convertSipocToVsm draws.
SipocToVsmDraws(sipoc) == 2 * (IF Len(sipoc.process) > 0 THEN Len(sipoc.process) ELSE 1) + 3

\* A lift that sorts the steps of its argument where they are.
SourceSorted(lift, source) ==
    IF lift = "vsmToBpmn" THEN [source EXCEPT !.steps = SortByX(@)] ELSE source

\* The argument after the call: filter() hands sort() a copy, and forEach only
\* reads, so the caller's diagram is as it was.
SourceAfter(lift, source) == source

PureInputs ==
    {[kind |-> "apply", lift |-> "vsmToBpmn", source |-> s, given |-> s] : s \in VsmInputs}
    \cup {[kind |-> "apply", lift |-> "sipocToVsm", source |-> s, given |-> s] :
            s \in SipocInputs}
    \cup {[kind |-> "apply", lift |-> "sipocToBpmn", source |-> s, given |-> s] :
            s \in {t \in SipocInputs : Len(t.process) <= MaxPureSteps}}

\* One more application of the lift to the same source, by the handlers of the
\* App that call it; the id generator is the one the editors draw from.
ApplyLift ==
    /\ inp.kind = "apply"
    /\ (IF out = NoValue THEN 0 ELSE Len(out.runs)) < MaxRuns
    /\ LET runs == IF out = NoValue THEN <<>> ELSE out.runs
           src == inp.source
       IN  \/ /\ inp.lift = "vsmToBpmn"
              /\ out' = [kind |-> "runs", runs |-> Append(runs, convertVsmToBpmn(src))]
              /\ uuid' = uuid
           \/ /\ inp.lift = "sipocToVsm"
              /\ out' = [kind |-> "runs", runs |-> Append(runs, convertSipocToVsm(src, uuid))]
              /\ uuid' = uuid + SipocToVsmDraws(src)
           \/ /\ inp.lift = "sipocToBpmn"
              /\ \E ids \in [1..(IF Len(src.process) > 0 THEN Len(src.process) ELSE 1)
                               -> UuidPrefixes] :
                    out' = [kind |-> "runs",
                            runs |-> Append(runs, convertSipocToBpmn(src, ids))]
              /\ uuid' = uuid + (IF Len(src.process) > 0 THEN Len(src.process) ELSE 1)
    /\ inp' = [inp EXCEPT !.source = SourceAfter(inp.lift, @)]
    /\ UNCHANGED <<ctlVars, editor, mounted, data, viewState, reg, nMove, nUp, pointer, ev,
                   appVars>>

InitPure ==
    /\ EditorInit("vsm", EmptyDiagram)
    /\ inp \in PureInputs
    /\ out = NoValue
    /\ app = AppStart(ViewOf(editor))
    /\ timers = <<>>

NextPure == ApplyLift

SpecPure == InitPure /\ [][NextPure]_vars

\* The controller is as it was when the editor was rendered.
ControllerUntouched ==
    /\ selectedStepId = Null /\ selectedConnectorId = Null /\ selection = NoSelection
    /\ connectMode = NoMode /\ connectionSource = Null
    /\ draggedStepId = Null /\ ~isPanning
    /\ data = EmptyDiagram /\ viewState = IdentityView

\* A diagram without the ids its lift generated: the nodes (or steps) in
\* order without their id, the edges (or connectors) in order without their id
\* and their ends' ids, and whatever else the diagram carries.
Anonymous(d) ==
    LET drop(r, fields) == [f \in (DOMAIN r) \ fields |-> r[f]]
        each(q, fields) == [i \in 1..Len(q) |-> drop(q[i], fields)]
    IN  [f \in DOMAIN d |->
            IF f \in {"nodes", "steps"} THEN each(d[f], {"id"})
            ELSE IF f \in {"edges", "connectors"} THEN each(d[f], {"id", "source", "target"})
            ELSE d[f]]

Generated(e) == IF e = "fishbone" THEN {Bones} ELSE {LinkedPair(e), Sprawl(e)}
Scopes == {s \in SipocInputs : Len(s.process) = 1 /\ s.inputs = <<>> /\ s.outputs = <<>>}

\* setTimeout(fn, 100): fn is the function object of the render that scheduled
\* it, so it reads that render's data.
Timer(fn, d) == [fn |-> fn, data |-> d]

SwapBudget == ev.seq < MaxSwapSteps
SwapFrame == UNCHANGED <<ctlVars, editor, mounted, pointer, fnVars, app>>

\* VSMEditor executeImportScope: onUpdate(convertSipocToVsm(sipocData)), then
\* setTimeout(handleFitView, 100).
executeImportScope(sipocData) ==
    /\ SwapBudget /\ mounted /\ editor = "vsm"
    /\ data' = convertSipocToVsm(sipocData, uuid)
    /\ uuid' = uuid + SipocToVsmDraws(sipocData)
    /\ timers' = Append(timers, Timer("handleFitView", data))
    /\ viewState' = viewState
    /\ ev' = Event("importScope", Null, 0)
    /\ SwapFrame
    /\ Rerender

\* App handleGenerateVSM / handleGenerateCMMN, when the service has answered:
\* updateActiveProjectData replaces the diagram the editor is given.
handleGenerateCanvas(res) ==
    /\ SwapBudget /\ mounted /\ editor \in Canvas
    /\ data' = res
    /\ viewState' = viewState
    /\ ev' = Event("generate", Null, 0)
    /\ UNCHANGED <<uuid, timers>>
    /\ SwapFrame
    /\ Rerender

\* FishboneEditor handleFullGenerate, after the await: onUpdate(result),
\* setSelection(null), setTimeout(handleResetView, 100).
handleFullGenerate(result) ==
    /\ SwapBudget /\ mounted /\ editor = "fishbone"
    /\ data' = result
    /\ selection' = NoSelection
    /\ timers' = Append(timers, Timer("handleResetView", data))
    /\ viewState' = viewState
    /\ ev' = Event("generate", Null, 0)
    /\ UNCHANGED <<selectedStepId, selectedConnectorId, isPanning, lastMousePos,
                   hasPanningMoved, draggedStepId, dragOffset, connectMode,
                   connectionSource, editor, mounted, uuid, pointer, fnVars, app>>
    /\ Rerender

\* The timer runs the function it was given.
Timeout ==
    /\ SwapBudget /\ mounted /\ timers # <<>>
    /\ viewState' = IF Head(timers).fn = "handleFitView"
                    THEN FitVsm(Head(timers).data, viewState)
                    ELSE FitFishbone
    /\ timers' = Tail(timers)
    /\ ev' = Event("timeout", Null, 0)
    /\ UNCHANGED <<data, uuid>>
    /\ SwapFrame
    /\ Rerender

InitSwap ==
    /\ \E e \in Editors :
          \E d \in InitialData(e) \cup (IF e \in Canvas THEN {Sprawl(e)} ELSE {}) :
             EditorInit(e, d)
    /\ inp = NoValue /\ out = NoValue
    /\ app = AppStart(ViewOf(editor))
    /\ timers = <<>>

NextSwap ==
    \/ \E delta \in {Rat(1, 10), Rat(-1, 10)} : SwapBudget /\ handleZoom(delta)
    \/ \E sipocData \in Scopes : executeImportScope(sipocData)
    \/ \E res \in Generated(editor) : handleGenerateCanvas(res)
    \/ \E result \in Generated(editor) : handleFullGenerate(result)
    \/ Timeout

SpecSwap == InitSwap /\ [][NextSwap]_vars

FitOf(e, d, vs) ==
    IF e = "vsm" THEN FitVsm(d, vs) ELSE IF e = "cmmn" THEN FitCmmn(d, vs) ELSE FitFishbone

\* C22 -- Viewport reset on swap: once a wholesale swap of the diagram (scope
\* import or AI regenerate) has settled, i.e. no timer of it is pending, the
\* viewport is the identity or the fit computed from the new diagram.
C22_ViewportResetOnSwap ==
    (ev.op \in {"importScope", "generate", "timeout"} /\ timers = <<>>)
        => viewState \in {IdentityView, FitOf(editor, data, viewState)}

\* C23 -- Viewport scale range: in every reachable state of an editor surface,
\* after zoom steps and after fit-to-content / reset-view alike, the viewport's
\* scale lies in [0.2, 3.0].
C23_ScaleAlwaysInRange == InRange(viewState.scale)

\* types.ts VSMConnector: the connector kinds.
VSMConnectorTypes == {"electronic", "manual", "push", "pull"}

Resolving(conn, d) == conn.source \in StepIds(d) /\ conn.target \in StepIds(d)

\* C24 -- Connector kind closure: every connector of every value-stream diagram
\* the editor comes to show (from gestures, a regenerate or the Scope lift) has
\* a kind in {push, pull, manual, electronic}, and when both its ends resolve
\* it is drawn with a non-empty path.
C24_ConnectorKindClosure ==
    editor = "vsm" =>
        \A i \in 1..Len(data.connectors) :
            /\ data.connectors[i].type \in VSMConnectorTypes
            /\ Resolving(data.connectors[i], data)
                   => renderConnector(data.connectors[i], data).shape # "none"

\* Where the drag step puts the dragged node for the pointer at q: the model
\* point under the pointer less the grab offset, snapped to the grid.
DragTarget(q) ==
    LET m == toLocalCoordinates(q, viewState)
    IN  [x |-> Snap(RSub(m.x, dragOffset.x)), y |-> Snap(RSub(m.y, dragOffset.y))]

DraggingNode == editor \in Canvas /\ draggedStepId # Null /\ ~isPanning

C26_GestureReferentialIntegrity ==
    editor \in Canvas =>
        \A i \in 1..Len(data.connectors) : Resolving(data.connectors[i], data)

\* C27 -- Connect-mode consistency: in the value-stream editor, when connect
\* mode is off there is no pending connection source.
C27_ConnectModeConsistency ==
    (editor = "vsm" /\ connectMode = NoMode) => connectionSource = Null

\* C28 -- Pan accuracy under interleaving: while panning, whatever the order of
\* pointer moves and re-renders, each pointer move shifts the viewport offset
\* by the pointer's displacement since the previous pointer position, so that
\* the offset's change over the gesture is the pointer's total displacement.
C28_PanAccuracy ==
    [][(isPanning /\ ev'.op = "move") =>
          \E q \in MousePts :
             /\ lastMousePos' = q
             /\ viewState'.x = RAdd(viewState.x, RSub(q.x, lastMousePos.x))
             /\ viewState'.y = RAdd(viewState.y, RSub(q.y, lastMousePos.y))
             /\ viewState'.scale = viewState.scale]_vars

\* ------------------------------------- edits while a request is in flight
\* An async handler suspended at its await: the continuation runs with the
\* values of the render in which the handler was called.
Awaiting(id, service, d) == [id |-> id, service |-> service, data |-> d]

AwaitBudget == ev.seq < MaxAwaitSteps
AwaitFrame == UNCHANGED <<ctlVars, editor, mounted, viewState, uuid, pointer, fnVars, timers>>

\* What the analysis and the conclusion services answer with.
Analyses == {"r1", "r2"}
\* The null a service returns when it fails.
NoResult == "null"

\* FishboneEditor.updateProblemStatement
updateProblemStatement(text) ==
    /\ AwaitBudget /\ mounted /\ editor = "fishbone"
    /\ data' = [data EXCEPT !.problemStatement = text]
    /\ ev' = Event("problem", Null, 0)
    /\ UNCHANGED app
    /\ AwaitFrame
    /\ Rerender

\* VSMEditor.handleRunAnalysis up to its await (the button is disabled while
\* isAnalyzing): analyzeVSM(data) is asked.
RunAnalysis ==
    /\ AwaitBudget /\ mounted /\ editor = "vsm" /\ pointer.phase = "up"
    /\ ~app.isAnalyzing /\ app.issued < MaxRequests
    /\ app' = [app EXCEPT !.isAnalyzing = TRUE,
                          !.issued = @ + 1,
                          !.pending = @ \cup {Awaiting(app.issued + 1, "analyze", data)}]
    /\ ev' = Event("analyze", Null, 0)
    /\ UNCHANGED data
    /\ AwaitFrame
    /\ Rerender

\* FishboneEditor.handleGenerateConclusion up to its await (the button is
\* disabled while isConcluding or when there is no category).
handleGenerateConclusion ==
    /\ AwaitBudget /\ mounted /\ editor = "fishbone" /\ pointer.phase = "up"
    /\ Len(data.categories) # 0
    /\ ~app.isConcluding /\ app.issued < MaxRequests
    /\ app' = [app EXCEPT !.isConcluding = TRUE,
                          !.issued = @ + 1,
                          !.pending = @ \cup {Awaiting(app.issued + 1, "conclude", data)}]
    /\ ev' = Event("conclude", Null, 0)
    /\ UNCHANGED data
    /\ AwaitFrame
    /\ Rerender

\* The diagram the continuation hands to onUpdate: {...data, analysis: result}
\* (VSM) or {...data, ...result} (Fishbone), data being the handler's.
WithResult(c, result) ==
    IF c.service = "analyze" THEN [analysis |-> result] @@ c.data
    ELSE [conclusion |-> result] @@ c.data

\* The service answers and the continuation runs; a null result changes nothing
\* but the flag.
Continue(c, result) ==
    /\ AwaitBudget /\ mounted /\ c \in app.pending
    /\ data' = IF result = NoResult THEN data ELSE WithResult(c, result)
    /\ app' = [app EXCEPT !.isAnalyzing = IF c.service = "analyze" THEN FALSE ELSE @,
                          !.isConcluding = IF c.service = "conclude" THEN FALSE ELSE @,
                          !.pending = @ \ {c}]
    /\ ev' = Event("continue", c.id, IF result = NoResult THEN 0 ELSE 1)
    /\ AwaitFrame
    /\ Rerender

InitAwait ==
    /\ \E e \in {"vsm", "fishbone"} : \E d \in InitialData(e) : EditorInit(e, d)
    /\ inp = NoValue /\ out = NoValue
    /\ app = AppStart(ViewOf(editor))
    /\ timers = <<>>

NextAwait ==
    \/ \E r \in AddRoles(editor) : AwaitBudget /\ handleAddStep(r)
    \/ \E via \in {"key", "button"} : AwaitBudget /\ handleDeleteSelection(via)
    \/ \E text \in {"p", "q"} : updateProblemStatement(text)
    \/ RunAnalysis
    \/ handleGenerateConclusion
    \/ \E c \in app.pending : \E result \in Analyses \cup {NoResult} : Continue(c, result)

SpecAwait == InitAwait /\ [][NextAwait]_vars

\* The diagram without the fields a result is written to.
Edited(d) == [f \in (DOMAIN d) \ {"analysis", "conclusion"} |-> d[f]]

\* C29 -- No lost update across an in-flight request: when the result of an
\* analysis or conclusion request is applied, the diagram keeps every edit made
\* since the request: only the result's fields differ from the diagram as it
\* was just before the result arrived.
C29_NoLostUpdate ==
    [][ev'.op = "continue" => Edited(data') = Edited(data)]_vars

\* ------------------------------- ProcessEditor and the diagram widget
\* A process map, as far as the import guard looks at it: which map it is (ver),
\* how many nodes it has, and the metric value of its selected node.
ProcessMap(ver, nodes, metric) == [ver |-> ver, nodes |-> nodes, metric |-> metric]

\* The ProcessEditor once its modeler exists: the map it is given, the map the
\* widget last imported, the isInternalUpdate ref, and the state updates of the
\* App that wait for their render.
ProcessEditorStart(map) ==
    [view |-> "editor", map |-> map, widget |-> map.ver, isInternalUpdate |-> FALSE,
     queue |-> <<>>, issued |-> map.ver]

\* The effect on [data, modeler]: the import, left out when the guard is set or
\* the map has no node, and the guard is cleared.
ImportEffect(f) ==
    [f EXCEPT !.widget = IF ~f.isInternalUpdate /\ f.map.nodes > 0 THEN f.map.ver ELSE @,
              !.isInternalUpdate = FALSE]

\* A render of the App and the ProcessEditor: the waiting updates are applied in
\* order, each replacing the process map by a new object, and the effect runs.
RenderMap(f, queue) ==
    IF queue = <<>> THEN f
    ELSE ImportEffect([f EXCEPT !.map = queue[Len(queue)], !.queue = <<>>])

SyncBudget == ev.seq < MaxSyncSteps
SyncFrame ==
    UNCHANGED <<ctlVars, editor, mounted, data, viewState, uuid, reg, nMove, nUp, pointer,
                fnVars, timers>>

\* App.handleGenerateProcess / handleMineProcess after the await:
\* updateActiveProjectData({processMap: result}); the render comes later.
handleGenerateProcess(nodes) ==
    /\ SyncBudget /\ app.issued < MaxReplacements
    /\ app' = [app EXCEPT !.queue = Append(@, ProcessMap(app.issued + 1, nodes, 0)),
                          !.issued = @ + 1]
    /\ ev' = Event("replace", app.issued + 1, nodes)
    /\ SyncFrame

\* The render the scheduler runs for the waiting updates.
RenderProcessEditor ==
    /\ SyncBudget /\ app.queue # <<>>
    /\ app' = RenderMap(app, app.queue)
    /\ ev' = Event("render", Null, 0)
    /\ SyncFrame

\* ProcessEditor.handleMetricChange on a selected element: the guard is set, the
\* map of this render with the metric changed goes to onUpdate, and the input
\* event's render follows at once.
handleMetricChange(value) ==
    /\ SyncBudget /\ app.map.nodes > 0
    /\ app' = RenderMap([app EXCEPT !.isInternalUpdate = TRUE],
                        Append(app.queue, [app.map EXCEPT !.metric = value]))
    /\ ev' = Event("metric", Null, value)
    /\ SyncFrame

InitSync ==
    /\ EditorInit("vsm", EmptyDiagram)
    /\ inp = NoValue /\ out = NoValue
    /\ \E nodes \in {0, 2} : app = ProcessEditorStart(ProcessMap(0, nodes, 0))
    /\ timers = <<>>

NextSync ==
    \/ \E nodes \in {0, 2} : handleGenerateProcess(nodes)
    \/ RenderProcessEditor
    \/ \E value \in {1, 2} : handleMetricChange(value)

SpecSync == InitSync /\ [][NextSync]_vars

\* C30 -- Widget synchronisation: when the updates that wait for a render are
\* rendered, the last process map that came from outside the editor, if it has a
\* node, is the map the widget shows, also when a local metric edit is rendered
\* with it; and a metric edit alone never makes the widget import.
C30_WidgetSynchronisation ==
    [][/\ (app.queue # <<>> /\ app'.queue = <<>> /\ app.queue[Len(app.queue)].nodes > 0)
            => app'.widget = app.queue[Len(app.queue)].ver
       /\ (ev'.op = "metric" /\ app.queue = <<>>) => app'.widget = app.widget]_vars

====
